---- MODULE Spec2Model ----
(***************************************************************************)
(* Large-text / multi-document translation pipeline of DeepLX-App.         *)
(*                                                                         *)
(*   - the retrying unit translators: translateText of the documents API   *)
(*     (retry, backoff, demo fallback) and translateChunk of the browser   *)
(*     client (retry, throws on exhaustion);                               *)
(*   - the document task state machine of the documents API, in its two    *)
(*     versions (api/documents.js and the retrying version);               *)
(*   - the browser client's multi-chunk translateText (window loop).       *)
(*                                                                         *)
(* Specifications: SpecRetry (one translator call), SpecDoc (tasks and     *)
(* requests interleaved), SpecProgress (one task, many target languages),  *)
(* SpecText (the translations that one key press starts in the browser     *)
(* client), SpecRequests (requests made while translations are in flight), *)
(* and further ones for the window loop, the progress bar, auto-translate, *)
(* the document queue, the language selection, the backoff delays,         *)
(* splitTextIntoChunks and the Telegram authentication sessions            *)
(* (SpecAuth), each introduced where its actions are defined.              *)
(*                                                                         *)
(* Every await of the source is a step boundary; the statements between    *)
(* two awaits run atomically (single-threaded event loop).                 *)
(***************************************************************************)
EXTENDS Integers, Sequences, FiniteSets, TLC

VARIABLES
    unit,        \* SpecRetry: the one retrying translator call under study
    unitLog,     \* SpecRetry: history of "call" / "sleep" events of that call
    unitOuts,    \* SpecRetry: history of the outcomes of the client calls
    apiVersion,  \* SpecDoc: "basic" (api/documents.js) or "retry" (retrying version)
    processingTasks, \* SpecDoc: the keys of the task registry (a Map)
    task,        \* SpecDoc: the task objects, by task id
    proc,        \* SpecDoc: where processDocumentAsync(taskId) stands, by task id
    now,         \* SpecDoc: Date.now()
    response,    \* SpecDoc: the last HTTP response sent
    progressLog, \* SpecDoc: history of the values assigned to task.progress
    statusLog,   \* SpecDoc: history of the values assigned to task.status
    parallelChunks,       \* SpecText: CONFIG.PARALLEL_CHUNKS
    isTranslating,        \* SpecText: the busy flag of each page script
    currentTranslationId, \* SpecText: the generation counter of each page script
    outputText,  \* SpecText: elements.outputText.value, as the sequence of joined pieces
    outputBy,    \* SpecText: history: the run (script, generation) that wrote the output last
    progressBar, \* SpecText: the last value given to updateProgress
    run,         \* SpecText: the locals of the running translateText of each page script
    batchPromises, \* SpecText: the translateChunk calls started by windows, by script and chunk
    chunkLog,    \* SpecText: client calls and sleeps counted per script and chunk
    requests,    \* SpecText: history of the calls of translateText for a non-empty text
    isAuthenticated,    \* browser client: the authentication flag
    documentQueue,      \* SpecQueue: the ids of the queued items, in order
    completedDocuments, \* SpecQueue: the ids of the items pushed to the completed list
    queueItem,          \* SpecQueue: the queue item objects, by id
    isProcessingBatch,  \* SpecQueue: the flag of the batch run
    batchRun,           \* SpecQueue: the calls of startBatchProcessing, where each stands
    checkInterval,      \* SpecQueue: the status pollers set up by trackDocumentProgress,
                        \* each with its status requests in flight
    remoteTask,         \* SpecQueue: the tasks of the documents API, as the client sees them
    pausedRuns,         \* SpecQueue: history: the runs that were under way at a pause
    splitArgs,          \* SpecSplit: the arguments of a call of splitTextIntoChunks
    splitResult,        \* SpecSplit: what the call returned ("none" before it has)
    selectedTargetLanguages, \* SpecLangs: the selected target languages, in order
    savedLanguages,     \* SpecLangs: localStorage item 'selectedTargetLanguages'
    pageSetUp,          \* SpecLangs: the set-up of the page ran to its end (listeners registered)
    sleepLog,           \* SpecBackoff: history of the delays slept by one translateText
    inputText,          \* SpecAuto: elements.inputText.value.trim(), with its revision number;
                        \* the text specifications do not keep its value (AnyInput)
    autoTranslate,      \* SpecAuto: elements.autoTranslateToggle.checked
    translateTimeout,   \* SpecAuto: the debounce timer of each page script is armed
    sessions,           \* SpecAuth: the entries of the sessions Map, in insertion order
    webhookCalls,       \* SpecAuth: the webhook handlers that await their answer to the user
    approvalRequests    \* SpecAuth: the calls of sendAdminApprovalRequest, in order

retryVars == <<unit, unitLog, unitOuts>>
docVars == <<apiVersion, processingTasks, task, proc, now, response, progressLog, statusLog>>
textVars == <<parallelChunks, isTranslating, currentTranslationId, outputText, outputBy,
              progressBar, run, batchPromises, chunkLog, requests>>
batchVars == <<documentQueue, completedDocuments, queueItem, isProcessingBatch, batchRun,
               checkInterval, remoteTask, pausedRuns>>
queueVars == <<isAuthenticated, batchVars>>
splitVars == <<splitArgs, splitResult>>
langVars == <<selectedTargetLanguages, savedLanguages, pageSetUp>>
backoffVars == <<sleepLog>>
autoVars == <<inputText, autoTranslate, translateTimeout>>
authVars == <<sessions, webhookCalls, approvalRequests>>
vars == <<retryVars, docVars, textVars, queueVars, splitVars, langVars, backoffVars, autoVars, authVars>>

(***************************************************************************)
(* Bounds of the model.                                                    *)
(***************************************************************************)
MaxAttempts == 3
MaxTasks == 2
MaxLangs == 3
MaxTicks == 1
MaxChunks == 3
MaxRuns == 2
MaxTotalLangs == 147
MaxWindowChunks == 5
MaxBackoffs == 4
MaxRequests == 4
MaxItems == 2
MaxBatchRuns == 2
MaxRemoteTasks == 2
MaxShortLen == 5
MaxShortLimit == 4
MaxRetriesArg == 7
MaxBarChunks == 120
MaxEdits == 2
MaxPolls == 2
MaxTextBackoffs == 4

(***************************************************************************)
(* Program constants.                                                      *)
(***************************************************************************)
MAX_RETRIES == 5
BASE_DELAY == 1000
MAX_DELAY == 16000
ChunkRetries == 3
PARALLEL_CHUNKS == 3
SearchMargin == 50

(***************************************************************************)
(* The Translation Client: one fetch of the translate endpoint and the     *)
(* reading of its response.  An outcome is what one call produces.         *)
(*   ok      : response.ok, result.code = 200 and result.data non-empty    *)
(*   http    : !response.ok with the given status                          *)
(*   payload : response.ok but result.code # 200 or no result.data         *)
(*   throw   : fetch or response.json() rejected with the given message    *)
(***************************************************************************)
StatusCodes == {400, 404, 408, 429, 500, 501, 503, 522}

(* response.statusText: the standard reason phrase of the status, none for *)
(* a status without one, or a phrase of the server's own.                  *)
ReasonPhrase(s) ==
    CASE s = 400 -> "Bad Request"
      [] s = 404 -> "Not Found"
      [] s = 408 -> "Request Timeout"
      [] s = 429 -> "Too Many Requests"
      [] s = 500 -> "Internal Server Error"
      [] s = 501 -> "Not Implemented"
      [] s = 503 -> "Service Unavailable"
      [] OTHER -> ""

HttpResponses ==
    {[status |-> s, statusText |-> ReasonPhrase(s)] : s \in StatusCodes}
    \cup {[status |-> 404, statusText |-> "upstream timeout"],
          [status |-> 501, statusText |-> "network unreachable"]}

(* The body of a response that is not ok (response.text()).                *)
ErrorBody == "body"

ThrowMessages ==
    { "read ECONNRESET", "network timeout at: https://dplx.xi-xu.me/translate",
      "fetch failed", "Unexpected token < in JSON at position 0" }

(* msg: result.message of a non-success payload, error.message of a        *)
(* rejected fetch or response.json().                                      *)
Outcomes ==
    {[t |-> "ok", status |-> 200, statusText |-> "OK", msg |-> "ok"]}
    \cup {[t |-> "http", status |-> r.status, statusText |-> r.statusText, msg |-> ""] :
             r \in HttpResponses}
    \cup {[t |-> "payload", status |-> 200, statusText |-> "OK", msg |-> "API error"]}
    \cup {[t |-> "throw", status |-> 0, statusText |-> "", msg |-> m] : m \in ThrowMessages}

Failures == {o \in Outcomes : o.t # "ok"}

(* The message of the Error that a failed call raises inside the loop.     *)
FailureMessage(kind, o) ==
    CASE o.t = "http" /\ kind = "translateText" ->
            "HTTP " \o ToString(o.status) \o ": "
                \o (IF o.statusText = "" THEN "Unknown Error" ELSE o.statusText)
      [] o.t = "http" ->
            "HTTP " \o ToString(o.status) \o ": " \o o.statusText \o " - " \o ErrorBody
      [] o.t = "payload" /\ kind = "translateChunk" -> "API Error: " \o o.msg
      [] OTHER -> o.msg

(* The substrings of the retry list that an error message contains        *)
(* (String.prototype.includes is case sensitive: "HTTP 408: Request       *)
(* Timeout" does not include "timeout").                                   *)
MessageTokens(msg) ==
    CASE msg = "read ECONNRESET" -> {"ECONNRESET"}
      [] msg = "network timeout at: https://dplx.xi-xu.me/translate" -> {"network", "timeout"}
      [] msg = "HTTP 404: upstream timeout" -> {"timeout"}
      [] msg = "HTTP 501: network unreachable" -> {"network"}
      [] OTHER -> {}

shouldRetry(statusCode) ==
    statusCode \in {408, 429, 500, 502, 503, 504, 520, 521, 522, 523, 524}

shouldRetryError(msg) ==
    \/ MessageTokens(msg) \cap {"ECONNRESET", "ETIMEDOUT", "ENOTFOUND", "EAI_AGAIN", "ECONNREFUSED"} # {}
    \/ "timeout" \in MessageTokens(msg)
    \/ "network" \in MessageTokens(msg)

(***************************************************************************)
(* Texts.  A text is a record: the data of the n-th client call ("api"),   *)
(* a demo text of the documents API ("demo"), the client's error marker    *)
(* for a chunk ("mark"), or no text at all ("none", JavaScript undefined). *)
(* "of" names what was translated: the chunk's position in the chunk list  *)
(* (0: the extracted text of a document).                                  *)
(***************************************************************************)
NoText == [k |-> "none", lang |-> "", of |-> 0, n |-> 0]

ApiText(lang, of, n) == [k |-> "api", lang |-> lang, of |-> of, n |-> n]

(* The keys of demoTexts (retrying version).                               *)
DemoLangs ==
    { "BG", "CS", "PL", "RU", "SK", "SL", "UK",
      "DE", "EN", "NL", "SV", "DA", "NB",
      "FR", "ES", "IT", "PT", "RO",
      "EL", "HU", "FI", "ET", "LT", "LV",
      "ZH", "JA", "KO",
      "AR", "TR", "ID" }

(* The property names every object literal inherits from Object.prototype: *)
(* demoTexts[langCode] is a function or an object for them, not a text.    *)
InheritedKeys ==
    { "constructor", "toString", "toLocaleString", "valueOf", "hasOwnProperty",
      "isPrototypeOf", "propertyIsEnumerable", "__proto__", "__defineGetter__",
      "__defineSetter__", "__lookupGetter__", "__lookupSetter__" }

(* demoTexts[langCode] || demoTexts['EN']                                  *)
generateDemoTranslatedContent(langCode) ==
    IF langCode \in InheritedKeys
    THEN [k |-> "object", lang |-> langCode, of |-> 0, n |-> 0]
    ELSE [k |-> "demo", lang |-> IF langCode \in DemoLangs THEN langCode ELSE "EN",
          of |-> 0, n |-> 0]

IsEmptyText(text) == text.k = "none"

(***************************************************************************)
(* One attempt of a retrying translator, as the loop body decides it.      *)
(*   kind "translateText"      : documents API, retrying version           *)
(*   kind "translateChunk"     : browser client                            *)
(*   kind "translateTextBasic" : documents API, api/documents.js           *)
(* Result: "return" (the data), "sleep" (back off, then the next attempt), *)
(* "break" (leave the loop, fall back) or "throw".                         *)
(***************************************************************************)
\* Faulty variant of translateTextAttempt: every failure is retried.
translateTextAttemptEager(attempt, maxRetries, o) ==
    IF o.t = "ok" THEN "return"
    ELSE IF attempt < maxRetries THEN "sleep"
    ELSE "break"

\* Faulty variant of translateTextAttempt: the last attempt is never made.
translateTextAttemptOffByOne(attempt, maxRetries, o) ==
    IF o.t = "ok" THEN "return"
    ELSE IF attempt + 1 < maxRetries
            /\ (o.t = "payload" \/ shouldRetry(o.status)
                    \/ shouldRetryError(FailureMessage("translateText", o)))
    THEN "sleep"
    ELSE "break"

\* The loop body of translateText (retrying version of the documents API).
translateTextAttempt(attempt, maxRetries, o) ==
    CASE o.t = "ok" -> "return"
      [] o.t = "http" ->
            IF shouldRetry(o.status) /\ attempt < maxRetries THEN "sleep"
            ELSE IF attempt < maxRetries /\ shouldRetryError(FailureMessage("translateText", o)) THEN "sleep"
            ELSE "break"
      [] o.t = "payload" ->
            IF attempt < maxRetries THEN "sleep"
            ELSE IF attempt < maxRetries /\ shouldRetryError(FailureMessage("translateText", o)) THEN "sleep"
            ELSE "break"
      [] OTHER ->
            IF attempt < maxRetries /\ shouldRetryError(FailureMessage("translateText", o)) THEN "sleep"
            ELSE "break"

\* Faulty variant of translateChunkAttempt: one attempt too many.
translateChunkAttemptOneMore(attempt, maxRetries, o) ==
    IF o.t = "ok" THEN "return"
    ELSE IF attempt > maxRetries THEN "throw"
    ELSE "sleep"

\* Faulty variant of translateTextBasicAttempt: a failure is not raised.
translateTextBasicAttemptSwallows(attempt, maxRetries, o) == "return"

\* The loop body of translateChunk (browser client).
translateChunkAttempt(attempt, maxRetries, o) ==
    IF o.t = "ok" THEN "return"
    ELSE IF attempt = maxRetries THEN "throw"
    ELSE "sleep"

\* translateText of api/documents.js: one call, any failure is raised.
translateTextBasicAttempt(attempt, maxRetries, o) ==
    IF o.t = "ok" THEN "return" ELSE "throw"

AttemptDisposition(kind, attempt, maxRetries, o) ==
    CASE kind = "translateText" -> translateTextAttempt(attempt, maxRetries, o)
      [] kind = "translateChunk" -> translateChunkAttempt(attempt, maxRetries, o)
      [] OTHER -> translateTextBasicAttempt(attempt, maxRetries, o)

(***************************************************************************)
(* A running translator call.                                              *)
(*   pc      : "inflight" (awaiting fetch), "sleeping" (awaiting the       *)
(*             backoff timer), "returned", "thrown"                        *)
(*   attempt : the loop variable                                           *)
(*   calls, sleeps : client calls issued and backoff sleeps begun          *)
(***************************************************************************)
UnitKinds == {"translateText", "translateChunk", "translateTextBasic"}

(* What the function returns when the loop ends without a return.          *)
LoopExit(kind, lang) ==
    IF kind = "translateText" THEN generateDemoTranslatedContent(lang) ELSE NoText

(* A language code that cannot be converted to a string, such as the JSON  *)
(* value {"toString": 1}: a template literal that holds it throws a         *)
(* TypeError.                                                              *)
UnprintableLang == "{toString: 1}"
ConversionError == "Cannot convert object to primitive value"

(* The first statement of translateText in the retrying version of the     *)
(* documents API, before its loop and outside every try:                   *)
(* console.log(`... ${sourceLang} -> ${targetLang} ...`) throws for a      *)
(* language that cannot be converted to a string.  translateText of        *)
(* api/documents.js and translateChunk of the client log no language on    *)
(* entry.                                                                  *)
UnitEntryThrows(kind, sourceLang, lang) ==
    kind = "translateText" /\ (sourceLang = UnprintableLang \/ lang = UnprintableLang)

(* The catch block of translateText in api/documents.js,                   *)
(* console.error(`... ${sourceLang} -> ${targetLang}:`, error.message),    *)
(* throws itself for such a language: the TypeError is raised instead of   *)
(* the failure of the call.                                                *)
RaisedMessage(u, o) ==
    IF u.kind = "translateTextBasic" /\ (u.source = UnprintableLang \/ u.lang = UnprintableLang)
    THEN ConversionError
    ELSE FailureMessage(u.kind, o)

(* The call of a translator: it rejects before its first call of the       *)
(* client, issues its first call, or (maxRetries below 1) leaves the loop  *)
(* at once.                                                                *)
UnitStart(kind, sourceLang, lang, of, maxRetries) ==
    LET u == [kind |-> kind, source |-> sourceLang, lang |-> lang, of |-> of,
              max |-> maxRetries, attempt |-> 1, pc |-> "inflight", calls |-> 1,
              sleeps |-> 0, text |-> NoText, err |-> ""]
    IN
    IF UnitEntryThrows(kind, sourceLang, lang)
    THEN [u EXCEPT !.pc = "thrown", !.calls = 0, !.err = ConversionError]
    ELSE IF maxRetries >= 1 \/ kind = "translateTextBasic" THEN u
    ELSE [u EXCEPT !.pc = "returned", !.calls = 0, !.text = LoopExit(kind, lang)]

UnitReturn(u, o) ==
    LET d == AttemptDisposition(u.kind, u.attempt, u.max, o) IN
    CASE d = "return" -> [u EXCEPT !.pc = "returned", !.text = ApiText(u.lang, u.of, u.calls)]
      [] d = "sleep"  -> [u EXCEPT !.pc = "sleeping", !.sleeps = @ + 1, !.err = FailureMessage(u.kind, o)]
      [] d = "break"  -> [u EXCEPT !.pc = "returned", !.text = LoopExit(u.kind, u.lang),
                                   !.err = FailureMessage(u.kind, o)]
      [] OTHER        -> [u EXCEPT !.pc = "thrown", !.err = RaisedMessage(u, o)]

UnitWake(u) ==
    IF u.attempt + 1 <= u.max
    THEN [u EXCEPT !.pc = "inflight", !.attempt = @ + 1, !.calls = @ + 1]
    ELSE [u EXCEPT !.pc = "returned", !.attempt = @ + 1, !.text = LoopExit(u.kind, u.lang)]

UnitDone(u) == u.pc \in {"returned", "thrown"}

(* No call: a chunk no window has reached yet, or a settled call that      *)
(* nothing refers to any more.                                             *)
NoUnit ==
    [kind |-> "translateChunk", source |-> "", lang |-> "", of |-> 0, max |-> 0, attempt |-> 0,
     pc |-> "none", calls |-> 0, sleeps |-> 0, text |-> NoText, err |-> ""]

(* The locals of the client's translateText; pc "idle" when it is not      *)
(* running.                                                                *)
NoRun ==
    [pc |-> "idle", thisTranslationId |-> 0, totalChunks |-> 0, targetLang |-> "",
     i |-> 0, j |-> 0, translatedChunks |-> <<>>, completedChunks |-> 0, totalErrors |-> 0,
     retry |-> NoUnit]

(* The two page scripts of script.js, in the order in which they are       *)
(* registered.                                                             *)
Scripts == 1..2

(* No run has written the output field: it is empty as loaded, was cleared *)
(* or was written by a click.                                              *)
NoWriter == [script |-> 0, id |-> 0]

TextIdle ==
    /\ parallelChunks = PARALLEL_CHUNKS
    /\ isTranslating = [p \in Scripts |-> FALSE]
    /\ currentTranslationId = [p \in Scripts |-> 0]
    /\ outputText = <<>>
    /\ outputBy = NoWriter
    /\ progressBar = 0
    /\ run = [p \in Scripts |-> NoRun]
    /\ batchPromises = [p \in Scripts |-> <<>>]
    /\ chunkLog = [p \in Scripts |-> <<>>]
    /\ requests = <<>>

(* The document queue of the browser client before any file is added.      *)
QueueIdle ==
    /\ documentQueue = <<>>
    /\ completedDocuments = <<>>
    /\ queueItem = <<>>
    /\ isProcessingBatch = FALSE
    /\ batchRun = <<>>
    /\ checkInterval = <<>>
    /\ remoteTask = <<>>
    /\ pausedRuns = {}

(* The language selection as the script sets it up, nothing saved.         *)
NoItem == [k |-> "none", langs |-> <<>>]

LangIdle ==
    /\ selectedTargetLanguages = <<"EN">>
    /\ savedLanguages = NoItem
    /\ pageSetUp = TRUE
    /\ sleepLog = <<>>

(* The input field is empty and no debounce timer is armed.                *)
NoInput == [kind |-> "empty", chunks |-> 0, rev |-> 0]

(* The input field where its value is not kept as state.                   *)
AnyInput == [kind |-> "any", chunks |-> 0, rev |-> 0]

AutoIdle ==
    /\ inputText = NoInput
    /\ autoTranslate = TRUE
    /\ translateTimeout = [p \in Scripts |-> FALSE]
    /\ sessions = <<>>
    /\ webhookCalls = <<>>
    /\ approvalRequests = <<>>

(* No call of splitTextIntoChunks under study.                             *)
SplitIdle ==
    /\ splitArgs = [text |-> <<>>, chunkSize |-> 0]
    /\ splitResult = [k |-> "none", chunks |-> <<>>]

(***************************************************************************)
(* SpecRetry: one call of a retrying translator, for every kind, target    *)
(* language and maxRetries, against a client that answers each call with   *)
(* any outcome.                                                            *)
(***************************************************************************)
RetryLangs == {"DE", "ZZ", "constructor"}

(* The source languages a translator is called with: the documents API     *)
(* passes on what the request body holds, the client the value of a        *)
(* select.                                                                 *)
RetrySources(kind) == IF kind = "translateText" THEN {"AUTO", UnprintableLang} ELSE {"AUTO"}

DocIdle ==
    /\ apiVersion = "retry"
    /\ processingTasks = {}
    /\ task = <<>>
    /\ proc = <<>>
    /\ now = 0
    /\ response = [code |-> 0]
    /\ progressLog = <<>>
    /\ statusLog = <<>>

RetryInit ==
    /\ DocIdle
    /\ TextIdle
    /\ QueueIdle
    /\ SplitIdle
    /\ LangIdle
    /\ AutoIdle
    /\ isAuthenticated = FALSE
    /\ \E kind \in {"translateText", "translateChunk"}, lang \in RetryLangs, m \in 0..MaxAttempts :
          \E sourceLang \in RetrySources(kind) :
              /\ unit = UnitStart(kind, sourceLang, lang, IF kind = "translateChunk" THEN 1 ELSE 0, m)
              /\ unitLog = IF unit.calls = 1 THEN <<"call">> ELSE <<>>
    /\ unitOuts = <<>>

ClientAnswers(o) ==
    /\ unit.pc = "inflight"
    /\ unit' = UnitReturn(unit, o)
    /\ unitOuts' = Append(unitOuts, o)
    /\ unitLog' = IF unit'.pc = "sleeping" THEN Append(unitLog, "sleep") ELSE unitLog
    /\ UNCHANGED <<docVars, textVars, queueVars, splitVars, langVars, backoffVars, autoVars, authVars>>

BackoffElapses ==
    /\ unit.pc = "sleeping"
    /\ unit' = UnitWake(unit)
    /\ unitLog' = IF unit'.pc = "inflight" THEN Append(unitLog, "call") ELSE unitLog
    /\ UNCHANGED <<unitOuts, docVars, textVars, queueVars, splitVars, langVars, backoffVars, autoVars, authVars>>

RetryNext ==
    \/ \E o \in Outcomes : ClientAnswers(o)
    \/ BackoffElapses

SpecRetry == RetryInit /\ [][RetryNext]_vars

(***************************************************************************)
(* The documents API: task registry, processDocumentAsync and the request  *)
(* handlers.                                                               *)
(***************************************************************************)
TickMs == 25 * 60 * 60 * 1000
maxAge == 24 * 60 * 60 * 1000

(* The values of task.progress, which are IEEE doubles.  <<p, q, e>> is    *)
(* the double p/q + e * 2^-46: a fraction, and the rounding excess counted *)
(* in units in the last place of the doubles between 64 and 128.  The      *)
(* excess is tracked for the value computed after the last language        *)
(* (p/q = 100), where it decides the comparisons with 100; the other       *)
(* values of a task differ from each other and from 100 by at least        *)
(* 80/totalLangs, so that their rounding errors (below 2^-44) decide no    *)
(* comparison and are left out.                                            *)
Rat(n) == <<n, 1, 0>>
RatLeq(a, b) ==
    \/ a[1] * b[2] < b[1] * a[2]
    \/ a[1] * b[2] = b[1] * a[2] /\ a[3] <= b[3]
RatEq(a, b) == a[1] * b[2] = b[1] * a[2] /\ a[3] = b[3]

RECURSIVE Pow2(_)
Pow2(e) == IF e = 0 THEN 1 ELSE 2 * Pow2(e - 1)

RECURSIVE Pow2Mod(_, _)
Pow2Mod(e, n) == IF e = 0 THEN 1 % n ELSE (2 * Pow2Mod(e - 1, n)) % n

(* 80 / totalLangs lies between 2^(6-d) and 2^(7-d): its 53-bit            *)
(* significand counts units of 2^-(46+d).                                  *)
BinadeShift(n) ==
    CHOOSE d \in 0..16 : 64 * n <= 80 * Pow2(d) /\ (d = 0 \/ 64 * n > 80 * Pow2(d - 1))

(* progressPerLang = 80 / totalLangs, rounded to nearest, is               *)
(* (80 * 2^(46+d) + rho) / totalLangs units of 2^-(46+d).                  *)
ShareResidue(n) ==
    LET r == (80 * Pow2Mod(46 + BinadeShift(n), n)) % n IN
    IF 2 * r < n THEN 0 - r ELSE n - r

(* progressPerLang * totalLangs is 80 + rho * 2^-(46+d) rounded to a       *)
(* multiple of 2^-46 (ties to 80, whose significand is even); adding 20    *)
(* is exact.  The result is 100 + e * 2^-46.                               *)
LastShareExcess(n) ==
    LET rho == ShareResidue(n)
        half == Pow2(BinadeShift(n)) IN
    IF 2 * rho > half THEN 1
    ELSE IF 2 * rho < 0 - half THEN 0 - 1
    ELSE 0

(* The request bodies of action=process: targetLangs is an array, is       *)
(* missing, or is not an array.                                            *)
LangCycle == <<"DE", "ZZ", "DE", "FR">>
LangAt(i) == LangCycle[((i - 1) % Len(LangCycle)) + 1]
LangCodes == {LangAt(i) : i \in 1..Len(LangCycle)}

TargetLangInputs ==
    {[i \in 1..n |-> LangAt(i)] : n \in 0..MaxLangs}
    \cup {<<UnprintableLang>>, <<"DE", UnprintableLang>>}

(* req.body.fileName: a name, or a value that cannot be converted to a     *)
(* string (the JSON value {"toString": 1}).                                *)
FileName == "a.txt"
UnprintableName == "{toString: 1}"

(* req.body.sourceLang: a language code, or a value that cannot be         *)
(* converted to a string; "" stands for a missing one.                     *)
BodySource == "EN"

ProcessBodies ==
    {[fileId |-> f, fileName |-> FileName, sourceLang |-> BodySource, langsKind |-> "array",
      targetLangs |-> tl] : f \in {"file_1", ""}, tl \in TargetLangInputs}
    \cup {[fileId |-> "file_1", fileName |-> FileName, sourceLang |-> BodySource,
            langsKind |-> k, targetLangs |-> <<>>] : k \in {"missing", "string"}}
    \cup {[fileId |-> "file_1", fileName |-> UnprintableName, sourceLang |-> BodySource,
            langsKind |-> "array", targetLangs |-> tl] : tl \in {<<>>, <<"DE">>}}
    \cup {[fileId |-> "file_1", fileName |-> FileName, sourceLang |-> UnprintableLang,
            langsKind |-> "array", targetLangs |-> <<"DE">>]}

TaskIds == DOMAIN task

(* How the Translation Client answers the calls made for one language:     *)
(* the first k calls fail with f, the later ones succeed.                  *)
DocFailures == {o \in Failures : o.t = "http" /\ o.status = 503}
OkOutcome == [t |-> "ok", status |-> 200, statusText |-> "OK", msg |-> "ok"]
ClientScripts ==
    {[i \in 1..MAX_RETRIES |-> IF i <= k THEN f ELSE OkOutcome] :
        f \in DocFailures, k \in {0, 1, MAX_RETRIES}}

(* The number of calls the scripted client fails.                           *)
FailCount(script) == Cardinality({i \in DOMAIN script : script[i].t # "ok"})

(* A whole run of a retrying translator against a scripted client.         *)
RECURSIVE UnitRun(_, _)
UnitRun(u, script) ==
    IF UnitDone(u) THEN u
    ELSE IF u.pc = "sleeping" THEN UnitRun(UnitWake(u), script)
    ELSE UnitRun(UnitReturn(u, script[u.calls]), script)

(* translateText(extractedText, task.sourceLang, langCode[, MAX_RETRIES])  *)
translateText(version, sourceLang, langCode, script) ==
    IF version = "retry"
    THEN UnitRun(UnitStart("translateText", sourceLang, langCode, 0, MAX_RETRIES), script)
    ELSE UnitRun(UnitStart("translateTextBasic", sourceLang, langCode, 0, 1), script)

(* The task object that handleDocumentProcessing registers;                *)
(* sourceLang: sourceLang || 'AUTO'.                                       *)
NewTask(body) ==
    [fileId |-> body.fileId, fileName |-> body.fileName,
     sourceLang |-> IF body.sourceLang = "" THEN "AUTO" ELSE body.sourceLang,
     targetLangs |-> body.targetLangs,
     status |-> "pending", progress |-> Rat(0), createdAt |-> now, results |-> <<>>,
     error |-> ""]

(* What the history keeps of one language of a task: the calls of the      *)
(* client that failed, whether translateText rejected, and whether a call  *)
(* of createTranslatedDocument rejected.                                   *)
LangHistory(clientFails, rejected, materializeFailed) ==
    [clientFails |-> clientFails, rejected |-> rejected, materializeFailed |-> materializeFailed]

(* The inner catch of the retrying version was reached because             *)
(* createTranslatedDocument rejected (and not translateText).              *)
CaughtMaterialize(p) == p.err = "createTranslatedDocument failed"

(* The first statement of processDocumentAsync inside its try,             *)
(* console.log(`... ${task.fileName}`), throws for a file name that cannot *)
(* be converted to a string: the outer catch is reached before the status  *)
(* processing is assigned.                                                 *)
EntryThrows(fileName) == fileName = UnprintableName

CompletedResult(langCode, text, note) ==
    [langCode |-> langCode, status |-> "completed", translatedText |-> text,
     note |-> note, error |-> ""]

\* Faulty variant of ErrorResult: the language code is lost.
ErrorResultMisfiled(langCode, message) ==
    [langCode |-> "", status |-> "error", translatedText |-> NoText,
     note |-> FALSE, error |-> message]

ErrorResult(langCode, message) ==
    [langCode |-> langCode, status |-> "error", translatedText |-> NoText,
     note |-> FALSE, error |-> message]

\* Faulty variant of LangProgress: the languages share 100 instead of 80.
LangProgressFullShare(version, i, totalLangs) ==
    <<20 * totalLangs + 100 * i, totalLangs, 0>>

(* task.progress after language number i (1-based) of totalLangs.          *)
(* api/documents.js: 20 + (80 * (i + 1)) / totalLangs; retrying version:   *)
(* 20 + (80 / totalLangs) * (i + 1).                                       *)
LangProgress(version, i, totalLangs) ==
    <<20 * totalLangs + 80 * i, totalLangs,
      IF version = "retry" /\ i = totalLangs THEN LastShareExcess(totalLangs) ELSE 0>>

\* Faulty variant of statusAfterLanguage: the status falls back to pending.
statusAfterLanguageReset(last, status) == IF last THEN "completed" ELSE "pending"

(* task.status after an iteration of the language loop.                    *)
statusAfterLanguage(last, status) == IF last THEN "completed" ELSE status

\* Faulty variant of push: the result is put in front of the earlier ones.
unshift(results, result) == <<result>> \o results

(* task.results.push(result)                                               *)
push(results, result) == Append(results, result)

(* The head of iteration i of the language loop, before the inner try:     *)
(* console.log(`... ${langCode}...`) throws for a language code that       *)
(* cannot be converted to a string, and the outer catch is reached.        *)
LoopHeadThrows(targetLangs, i) ==
    i <= Len(targetLangs) /\ targetLangs[i] = UnprintableLang

(* The end of one iteration of the language loop: the result is pushed,    *)
(* progress updated; after the last language the task is completed,        *)
(* otherwise the next iteration begins: the translation of the next        *)
(* language is started, or the loop head throws and the outer catch sets   *)
(* the task to error.                                                      *)
PushAndAdvance(t, result, ghost) ==
    LET tk == task[t]
        n == Len(tk.targetLangs)
        i == proc[t].i
        last == i = n
        thrown == LoopHeadThrows(tk.targetLangs, i + 1)
        status == IF thrown THEN "error" ELSE statusAfterLanguage(last, tk.status) IN
    /\ task' = [task EXCEPT ![t] =
                  [tk EXCEPT !.results = push(@, result),
                             !.progress = IF last THEN Rat(100) ELSE LangProgress(apiVersion, i, n),
                             !.status = status,
                             !.error = IF thrown THEN ConversionError ELSE @]]
    /\ proc' = [proc EXCEPT ![t] =
                  [@ EXCEPT !.pc = IF last \/ thrown THEN "done" ELSE "translate",
                            !.i = IF last THEN i ELSE i + 1,
                            !.text = NoText, !.err = "", !.clientFails = 0,
                            !.hist = Append(@, ghost)]]
    /\ progressLog' = [progressLog EXCEPT ![t] =
                  IF last THEN @ \o <<LangProgress(apiVersion, i, n), Rat(100)>>
                  ELSE Append(@, LangProgress(apiVersion, i, n))]
    /\ statusLog' = [statusLog EXCEPT ![t] =
                  IF status # tk.status THEN Append(@, status) ELSE @]

(* The target languages requested so far, over all tasks (MaxLangs bounds  *)
(* this total).                                                            *)
RECURSIVE SumLangs(_)
SumLangs(n) == IF n = 0 THEN 0 ELSE Len(task[n].targetLangs) + SumLangs(n - 1)
RequestedLangs == SumLangs(Len(task))

\* Faulty variant of InvalidRequest: the fileId is not looked at.
InvalidRequestLangsOnly(body) == body.langsKind # "array"

(* !fileId || !targetLangs || !Array.isArray(targetLangs): "" stands for a *)
(* missing fileId, and an empty array is an accepted targetLangs.          *)
InvalidRequest(body) == body.fileId = "" \/ body.langsKind # "array"

(* POST action=process.  The handler validates, registers the task and     *)
(* calls processDocumentAsync, which runs up to its first await before the *)
(* handler answers.  Nothing of the request is compared with a session:    *)
(* the handler serves every caller.                                        *)
handleDocumentProcessing(body) ==
    /\ response' = [code |-> IF InvalidRequest(body) THEN 400 ELSE 200]
    /\ IF InvalidRequest(body)
       THEN UNCHANGED <<processingTasks, task, proc, progressLog, statusLog>>
       ELSE /\ Len(task) < MaxTasks
            /\ Len(task) = 0 \/ RequestedLangs + Len(body.targetLangs) <= MaxLangs
            /\ LET taskId == Len(task) + 1
                   thrown == EntryThrows(body.fileName) IN
               /\ processingTasks' = processingTasks \cup {taskId}
               /\ task' = Append(task,
                             IF thrown
                             THEN [NewTask(body) EXCEPT !.status = "error",
                                                        !.error = ConversionError]
                             ELSE [NewTask(body) EXCEPT !.status = "processing",
                                                        !.progress = Rat(10)])
               /\ proc' = Append(proc, [pc |-> IF thrown THEN "done" ELSE "extract",
                                        i |-> 0, text |-> NoText, err |-> "",
                                        clientFails |-> 0, hist |-> <<>>])
               /\ progressLog' = Append(progressLog,
                             IF thrown THEN <<NewTask(body).progress>>
                             ELSE <<NewTask(body).progress, Rat(10)>>)
               /\ statusLog' = Append(statusLog,
                             <<NewTask(body).status, IF thrown THEN "error" ELSE "processing">>)
    /\ UNCHANGED <<apiVersion, now, retryVars, textVars, queueVars, splitVars, langVars, backoffVars, autoVars, authVars>>

(* Failures of the client and of createTranslatedDocument are explored    *)
(* for the tasks of at most MaxLangs target languages.                     *)
FailuresExplored(t) == Len(task[t].targetLangs) <= MaxLangs

(* await delay(1000); await extractTextFromDocument(task.fileId) returns:  *)
(* progress 20, then the language loop begins (completed at once for no    *)
(* language; error when the head of the first iteration throws).           *)
ExtractReturns(t) ==
    /\ proc[t].pc = "extract"
    /\ LET n == Len(task[t].targetLangs)
           thrown == LoopHeadThrows(task[t].targetLangs, 1)
           status == IF n = 0 THEN "completed" ELSE IF thrown THEN "error" ELSE task[t].status IN
       /\ task' = [task EXCEPT ![t] =
                     [@ EXCEPT !.progress = IF n = 0 THEN Rat(100) ELSE Rat(20),
                               !.status = status,
                               !.error = IF thrown THEN ConversionError ELSE @]]
       /\ proc' = [proc EXCEPT ![t] =
                     [@ EXCEPT !.pc = IF n = 0 \/ thrown THEN "done" ELSE "translate", !.i = 1]]
       /\ progressLog' = [progressLog EXCEPT ![t] =
                     IF n = 0 THEN @ \o <<Rat(20), Rat(100)>> ELSE Append(@, Rat(20))]
       /\ statusLog' = [statusLog EXCEPT ![t] =
                     IF status # task[t].status THEN Append(@, status) ELSE @]
    /\ UNCHANGED <<apiVersion, processingTasks, now, response, retryVars, textVars, queueVars, splitVars, langVars, backoffVars, autoVars, authVars>>

(* The extraction rejects: the outer catch of processDocumentAsync.        *)
ExtractFails(t) ==
    /\ proc[t].pc = "extract"
    /\ task' = [task EXCEPT ![t] = [@ EXCEPT !.status = "error", !.error = "extraction failed"]]
    /\ proc' = [proc EXCEPT ![t] = [@ EXCEPT !.pc = "done"]]
    /\ statusLog' = [statusLog EXCEPT ![t] = Append(@, "error")]
    /\ UNCHANGED <<apiVersion, processingTasks, now, response, progressLog, retryVars, textVars, queueVars, splitVars, langVars, backoffVars, autoVars, authVars>>

(* await translateText(...) settles for the current language.              *)
TranslateSettles(t, script) ==
    /\ proc[t].pc = "translate"
    /\ FailuresExplored(t) \/ FailCount(script) = 0
    /\ LET langCode == task[t].targetLangs[proc[t].i]
           u == translateText(apiVersion, task[t].sourceLang, langCode, script)
           fails == IF u.calls = 0 THEN 0 ELSE FailCount(script) IN
       IF u.pc = "returned"
       THEN /\ proc' = [proc EXCEPT ![t] =
                          [@ EXCEPT !.pc = "materialize", !.text = u.text,
                                    !.clientFails = fails]]
            /\ UNCHANGED <<task, progressLog, statusLog>>
       ELSE IF apiVersion = "retry"
       THEN /\ proc' = [proc EXCEPT ![t] =
                          [@ EXCEPT !.pc = "materializeFallback", !.err = u.err,
                                    !.text = generateDemoTranslatedContent(langCode),
                                    !.clientFails = fails]]
            /\ UNCHANGED <<task, progressLog, statusLog>>
       ELSE PushAndAdvance(t, ErrorResult(langCode, u.err), LangHistory(fails, TRUE, FALSE))
    /\ UNCHANGED <<apiVersion, processingTasks, now, response, retryVars, textVars, queueVars, splitVars, langVars, backoffVars, autoVars, authVars>>

(* await createTranslatedDocument(translatedText, ...) returns an id.      *)
MaterializeReturns(t) ==
    /\ proc[t].pc = "materialize"
    /\ PushAndAdvance(t, CompletedResult(task[t].targetLangs[proc[t].i], proc[t].text, FALSE),
                      LangHistory(proc[t].clientFails, FALSE, FALSE))
    /\ UNCHANGED <<apiVersion, processingTasks, now, response, retryVars, textVars, queueVars, splitVars, langVars, backoffVars, autoVars, authVars>>

(* createTranslatedDocument rejects: the catch of the language iteration.  *)
MaterializeFails(t) ==
    /\ proc[t].pc = "materialize"
    /\ FailuresExplored(t)
    /\ LET langCode == task[t].targetLangs[proc[t].i] IN
       IF apiVersion = "retry"
       THEN /\ proc' = [proc EXCEPT ![t] =
                          [@ EXCEPT !.pc = "materializeFallback",
                                    !.err = "createTranslatedDocument failed",
                                    !.text = generateDemoTranslatedContent(langCode)]]
            /\ UNCHANGED <<task, progressLog, statusLog>>
       ELSE PushAndAdvance(t, ErrorResult(langCode, "createTranslatedDocument failed"),
                           LangHistory(proc[t].clientFails, FALSE, TRUE))
    /\ UNCHANGED <<apiVersion, processingTasks, now, response, retryVars, textVars, queueVars, splitVars, langVars, backoffVars, autoVars, authVars>>

(* Retrying version: createTranslatedDocument(fallbackText, ...) returns.  *)
FallbackMaterializeReturns(t) ==
    /\ proc[t].pc = "materializeFallback"
    /\ PushAndAdvance(t, CompletedResult(task[t].targetLangs[proc[t].i], proc[t].text, TRUE),
                      LangHistory(proc[t].clientFails, ~CaughtMaterialize(proc[t]),
                                  CaughtMaterialize(proc[t])))
    /\ UNCHANGED <<apiVersion, processingTasks, now, response, retryVars, textVars, queueVars, splitVars, langVars, backoffVars, autoVars, authVars>>

(* Retrying version: it rejects again: the inner catch records an error.   *)
FallbackMaterializeFails(t) ==
    /\ proc[t].pc = "materializeFallback"
    /\ PushAndAdvance(t, ErrorResult(task[t].targetLangs[proc[t].i],
                                     proc[t].err \o ". fallback: createTranslatedDocument failed"),
                      LangHistory(proc[t].clientFails, ~CaughtMaterialize(proc[t]), TRUE))
    /\ UNCHANGED <<apiVersion, processingTasks, now, response, retryVars, textVars, queueVars, splitVars, langVars, backoffVars, autoVars, authVars>>

(* GET action=status.  taskId 0 stands for a missing parameter.            *)
handleTaskStatus(taskId) ==
    /\ response' = [code |-> IF taskId = 0 THEN 400
                             ELSE IF taskId \notin processingTasks THEN 404 ELSE 200]
    /\ UNCHANGED <<apiVersion, processingTasks, task, proc, now, progressLog, statusLog, retryVars, textVars, queueVars, splitVars, langVars, backoffVars, autoVars, authVars>>

\* Faulty variant of FindResult: the language code is not compared.
FindResultAnyLang(results, langCode) == IF results = <<>> THEN 0 ELSE 1

(* task.results.find(r => r.langCode === langCode): the first match.       *)
FindResult(results, langCode) ==
    LET hits == {j \in 1..Len(results) : results[j].langCode = langCode} IN
    IF hits = {} THEN 0 ELSE CHOOSE j \in hits : \A h \in hits : j <= h

(* GET action=download.  "" stands for a missing langCode.                 *)
handleDownload(taskId, langCode) ==
    /\ response' = [code |-> IF taskId = 0 \/ langCode = "" THEN 400
                             ELSE IF taskId \notin processingTasks THEN 404
                             ELSE LET j == FindResult(task[taskId].results, langCode) IN
                                  IF j = 0 \/ task[taskId].results[j].status # "completed"
                                  THEN 404 ELSE 200]
    /\ UNCHANGED <<apiVersion, processingTasks, task, proc, now, progressLog, statusLog, retryVars, textVars, queueVars, splitVars, langVars, backoffVars, autoVars, authVars>>

(* The sweep: every registered task older than maxAge leaves the registry  *)
(* (the task object lives on while its processDocumentAsync holds it).     *)
cleanupOldTasks ==
    /\ processingTasks' = {t \in processingTasks : ~(now - task[t].createdAt > maxAge)}
    /\ UNCHANGED <<apiVersion, task, proc, now, response, progressLog, statusLog, retryVars, textVars, queueVars, splitVars, langVars, backoffVars, autoVars, authVars>>

(* Time passes.                                                            *)
Tick ==
    /\ now < MaxTicks * TickMs
    /\ now' = now + TickMs
    /\ UNCHANGED <<apiVersion, processingTasks, task, proc, response, progressLog, statusLog, retryVars, textVars, queueVars, splitVars, langVars, backoffVars, autoVars, authVars>>

RetryIdle ==
    /\ unit = UnitStart("translateText", "AUTO", "EN", 0, 0)
    /\ unitLog = <<>>
    /\ unitOuts = <<>>

(* The callers of the documents API have not passed the authentication    *)
(* gate: the API is given no session and asks for none.                    *)
DocInit ==
    /\ RetryIdle
    /\ TextIdle
    /\ QueueIdle
    /\ SplitIdle
    /\ LangIdle
    /\ AutoIdle
    /\ isAuthenticated = FALSE
    /\ apiVersion \in {"basic", "retry"}
    /\ processingTasks = {}
    /\ task = <<>>
    /\ proc = <<>>
    /\ now = 0
    /\ response = [code |-> 0]
    /\ progressLog = <<>>
    /\ statusLog = <<>>

(* The process requests of SpecDoc: of the requests without a fileId,      *)
(* which are all answered alike, those with at most one language.          *)
DocBodies == {body \in ProcessBodies : body.fileId = "" => Len(body.targetLangs) <= 1}

(* The download requests of SpecDoc: a missing task id, a missing          *)
(* langCode, and for every task id the first and the second language of a  *)
(* request.                                                                *)
DownloadRequests ==
    {<<0, LangAt(1)>>, <<1, "">>} \cup ((1..MaxTasks) \X {LangAt(1), LangAt(2)})

DocNext ==
    \/ \E body \in DocBodies : handleDocumentProcessing(body)
    \/ \E t \in TaskIds : ExtractReturns(t)
    \/ \E t \in TaskIds : ExtractFails(t)
    \/ \E t \in TaskIds, script \in ClientScripts : TranslateSettles(t, script)
    \/ \E t \in TaskIds : MaterializeReturns(t)
    \/ \E t \in TaskIds : MaterializeFails(t)
    \/ \E t \in TaskIds : FallbackMaterializeReturns(t)
    \/ \E t \in TaskIds : FallbackMaterializeFails(t)
    \/ \E taskId \in 0..MaxTasks : handleTaskStatus(taskId)
    \/ \E request \in DownloadRequests : handleDownload(request[1], request[2])
    \/ cleanupOldTasks
    \/ Tick

SpecDoc == DocInit /\ [][DocNext]_vars

(***************************************************************************)
(* SpecProcess: the documents API serving process requests only, valid and *)
(* invalid ones, while the tasks they started run.                         *)
(***************************************************************************)
ProcessNext ==
    \/ \E body \in ProcessBodies : handleDocumentProcessing(body)
    \/ \E t \in TaskIds : ExtractReturns(t)
    \/ \E t \in TaskIds : ExtractFails(t)
    \/ \E t \in TaskIds, script \in ClientScripts : TranslateSettles(t, script)
    \/ \E t \in TaskIds : MaterializeReturns(t)
    \/ \E t \in TaskIds : MaterializeFails(t)
    \/ \E t \in TaskIds : FallbackMaterializeReturns(t)
    \/ \E t \in TaskIds : FallbackMaterializeFails(t)

SpecProcess == DocInit /\ [][ProcessNext]_vars

(***************************************************************************)
(* SpecProgress: the pipeline of one task alone, for every number of       *)
(* target languages up to MaxTotalLangs.                                   *)
(***************************************************************************)
LongBodies ==
    {[fileId |-> "file_1", fileName |-> FileName, sourceLang |-> BodySource,
      langsKind |-> "array", targetLangs |-> [i \in 1..n |-> LangAt(i)]] : n \in 0..MaxTotalLangs}

ProgressNext ==
    \/ \E body \in LongBodies : handleDocumentProcessing(body)
    \/ \E t \in TaskIds : ExtractReturns(t)
    \/ \E t \in TaskIds : ExtractFails(t)
    \/ \E t \in TaskIds, script \in ClientScripts : TranslateSettles(t, script)
    \/ \E t \in TaskIds : MaterializeReturns(t)
    \/ \E t \in TaskIds : MaterializeFails(t)
    \/ \E t \in TaskIds : FallbackMaterializeReturns(t)
    \/ \E t \in TaskIds : FallbackMaterializeFails(t)

SpecProgress == DocInit /\ [][ProgressNext]_vars

(***************************************************************************)
(* The browser client.  script.js registers two DOMContentLoaded           *)
(* listeners (lines 18-1024 and 1043-2926): two page scripts that bind     *)
(* their handlers to the same fields, buttons and keys.  Each script has   *)
(* its own isTranslating, currentTranslationId, translateTimeout and       *)
(* translateText; the fields of the page are shared.  The handlers of the  *)
(* first script run before those of the second (order of registration).    *)
(* The first script has no authorization gate and no progress bar.         *)
(*                                                                         *)
(* translateText: a text longer than CONFIG.CHUNK_SIZE is split into       *)
(* chunks, which are translated in windows of CONFIG.PARALLEL_CHUNKS calls *)
(* of translateChunk awaited together (Promise.all); when a window         *)
(* rejects, its chunks are translated again one by one, and a chunk that   *)
(* fails again is replaced by an error text.  Chunks are named by their    *)
(* position 1..totalChunks (chunkIndex + 1).                               *)
(***************************************************************************)
Min(a, b) == IF a <= b THEN a ELSE b

(* The chunk positions of chunks.slice(i, i + CONFIG.PARALLEL_CHUNKS).     *)
BatchOf(i, totalChunks, parallel) == (i + 1)..Min(i + parallel, totalChunks)

(* The ratios completedChunks / totalChunks of at most 1 whose percentage   *)
(* ends in .5 and whose product (completedChunks / totalChunks) * 100, in  *)
(* IEEE 754 double precision, lies below the exact value: 23 / 40 * 100    *)
(* is 57.49999999999999.  Every other product lies on the side of the      *)
(* nearest half where its exact value lies.                                *)
ShortProducts == {<<23, 40>>, <<29, 200>>, <<57, 200>>, <<113, 200>>}

(* Math.round((completedChunks / totalChunks) * 100): the product as the   *)
(* floating-point arithmetic gives it, rounded to the nearest integer,     *)
(* halves upwards.                                                         *)
RoundPercent(completedChunks, totalChunks) ==
    LET exact == (200 * completedChunks + totalChunks) \div (2 * totalChunks)
        short == \E r \in ShortProducts : completedChunks * r[2] = totalChunks * r[1]
    IN IF short THEN exact - 1 ELSE exact

(* `[❌ Ошибка части ${chunkIndex + 1}: ${retryError.message}]`             *)
ErrorText(c) == [k |-> "mark", lang |-> "", of |-> c, n |-> 0]

(* The outcomes the client of the text flow is exercised with.             *)
TextOutcomes == {OkOutcome} \cup DocFailures

(* The values of the two language selects during a translation.            *)
TextLang == "DE"
TextSource == "EN"

(* What the user has typed: nothing, a text of at most CHUNK_SIZE          *)
(* characters, or a longer text, which splits into two chunks or more.     *)
TextInputs ==
    {[kind |-> "empty", chunks |-> 0], [kind |-> "small", chunks |-> 1]}
    \cup {[kind |-> "large", chunks |-> n] : n \in 2..MaxChunks}

\* Faulty variant of BatchResults: the results in another order than that
\* of the promises.
BatchResultsBySettling(units, i, len) == [k \in 1..len |-> units[i + len + 1 - k].text]

(* The value of await Promise.all(batchPromises): the results in the       *)
(* order of the promises, whatever the order in which they settled.        *)
BatchResults(units, i, len) == [k \in 1..len |-> units[i + k].text]

(* The page as one record: the state of the two scripts (each component a  *)
(* function of the script) and the fields they share, so that the code     *)
(* that runs between two awaits can be composed of its parts.              *)
Page ==
    [run |-> run, units |-> batchPromises, busy |-> isTranslating,
     cur |-> currentTranslationId, log |-> chunkLog, reqs |-> requests,
     out |-> outputText, by |-> outputBy, bar |-> progressBar]

CommitPage(page) ==
    \E pg \in {page} :
    /\ run' = pg.run
    /\ batchPromises' = pg.units
    /\ isTranslating' = pg.busy
    /\ currentTranslationId' = pg.cur
    /\ chunkLog' = pg.log
    /\ requests' = pg.reqs
    /\ outputText' = pg.out
    /\ outputBy' = pg.by
    /\ progressBar' = pg.bar

(* What script p sees of the page: its own variables and the shared        *)
(* fields.                                                                 *)
View(pg, p) ==
    [script |-> p, run |-> pg.run[p], units |-> pg.units[p], busy |-> pg.busy[p],
     cur |-> pg.cur[p], log |-> pg.log[p], out |-> pg.out, by |-> pg.by, bar |-> pg.bar]

Put(pg, s) ==
    [pg EXCEPT !.run[s.script] = s.run, !.units[s.script] = s.units,
               !.busy[s.script] = s.busy, !.cur[s.script] = s.cur,
               !.log[s.script] = s.log, !.out = s.out, !.by = s.by, !.bar = s.bar]

TextState(p) == View(Page, p)

Commit(s) == CommitPage(Put(Page, s))

(* elements.outputText.value = value, by the run of script s.script.       *)
WriteOutput(s, value) ==
    [s EXCEPT !.out = value,
              !.by = [script |-> s.script, id |-> s.run.thisTranslationId]]

(* updateProgress(percent): the progress bar belongs to the second script; *)
(* the first script has none.                                              *)
updateProgress(s, percent) ==
    IF s.script = 2 THEN [s EXCEPT !.bar = percent] ELSE s

(* Settled calls of a window that has been left are referred to by nothing.*)
Forget(units) == [c \in DOMAIN units |-> IF UnitDone(units[c]) THEN NoUnit ELSE units[c]]

(* return from inside the try block with a stale generation: the finally   *)
(* block leaves isTranslating alone.                                       *)
Abandon(s) == [s EXCEPT !.run.pc = "abandoned"]

(* batch.map(... translateChunk(chunk, ..., 3, batchStartIndex + localIndex)): *)
(* every call of the window issues its first fetch.                        *)
StartBatch(s) ==
    LET batch == BatchOf(s.run.i, s.run.totalChunks, parallelChunks) IN
    [s EXCEPT !.run.pc = "window",
              !.units = [c \in DOMAIN s.units |->
                           IF c \in batch
                           THEN UnitStart("translateChunk", TextSource, s.run.targetLang, c,
                                          ChunkRetries)
                           ELSE s.units[c]],
              !.log = [c \in DOMAIN s.log |->
                           IF c \in batch THEN [s.log[c] EXCEPT !.batchCalls = @ + 1]
                           ELSE s.log[c]]]

(* After the loop: final generation check, the joined result, progress     *)
(* 100, and the finally block.                                             *)
Finish(s) ==
    IF s.run.thisTranslationId # s.cur THEN Abandon(s)
    ELSE [updateProgress(WriteOutput(s, s.run.translatedChunks), 100) EXCEPT
             !.run.pc = "done", !.busy = FALSE]

(* The head of the for loop, at s.run.i.                                   *)
LoopHead(s) ==
    IF s.run.i < s.run.totalChunks
    THEN IF s.run.thisTranslationId # s.cur THEN Abandon(s) ELSE StartBatch(s)
    ELSE Finish(s)

NextWindow(s) == LoopHead([s EXCEPT !.run.i = @ + parallelChunks, !.run.j = 0])

(* await translateChunk(batch[j], ..., 3, chunkIndex) in the catch block.  *)
StartIndividual(s) ==
    LET c == s.run.i + s.run.j + 1 IN
    [s EXCEPT !.run.pc = "individual",
              !.run.retry = UnitStart("translateChunk", TextSource, s.run.targetLang, c,
                                      ChunkRetries),
              !.log[c].retryCalls = @ + 1]

(* The window resolved: its results are pushed in the order of the         *)
(* promises, the progress is reported and the joined pieces are written to *)
(* the output field; then the next window.                                 *)
WindowResolved(s, results) ==
    LET pushed == s.run.translatedChunks \o results
        completed == s.run.completedChunks + Len(results)
        s1 == [s EXCEPT !.run.translatedChunks = pushed,
                        !.run.completedChunks = completed,
                        !.units = Forget(s.units)]
    IN NextWindow(WriteOutput(updateProgress(s1, RoundPercent(completed, s.run.totalChunks)),
                              pushed))

\* Faulty variant of WindowSettles: a window that rejects keeps the results
\* of its calls that have returned, and re-processes all its chunks.
WindowSettlesKeepsReturned(s) ==
    LET batch == BatchOf(s.run.i, s.run.totalChunks, parallelChunks)
        len == Cardinality(batch)
        returned == SelectSeq(BatchResults(s.units, s.run.i, len), LAMBDA t : t # NoText)
    IN
    IF \E c \in batch : s.units[c].pc = "thrown"
    THEN StartIndividual([s EXCEPT !.run.totalErrors = @ + 1, !.run.j = 0,
                                   !.run.translatedChunks = @ \o returned,
                                   !.units = Forget(s.units)])
    ELSE IF \A c \in batch : s.units[c].pc = "returned"
    THEN WindowResolved(s, BatchResults(s.units, s.run.i, len))
    ELSE s

(* The continuation of await Promise.all(batchPromises): it rejects as     *)
(* soon as one call of the window has thrown, and resolves when all have   *)
(* returned.                                                               *)
WindowSettles(s) ==
    LET batch == BatchOf(s.run.i, s.run.totalChunks, parallelChunks)
        len == Cardinality(batch)
    IN
    IF \E c \in batch : s.units[c].pc = "thrown"
    THEN StartIndividual([s EXCEPT !.run.totalErrors = @ + 1, !.run.j = 0,
                                   !.units = Forget(s.units)])
    ELSE IF \A c \in batch : s.units[c].pc = "returned"
    THEN WindowResolved(s, BatchResults(s.units, s.run.i, len))
    ELSE s

(* The continuation of the await in the catch block: the result or the     *)
(* error text is pushed, then the next chunk of the batch or the next      *)
(* window.                                                                 *)
IndividualSettles(s) ==
    LET u == s.run.retry
        piece == IF u.pc = "returned" THEN u.text ELSE ErrorText(u.of)
        pushed == Append(s.run.translatedChunks, piece)
        completed == s.run.completedChunks + 1
        len == Cardinality(BatchOf(s.run.i, s.run.totalChunks, parallelChunks))
        s1 == [s EXCEPT !.run.translatedChunks = pushed,
                        !.run.completedChunks = completed,
                        !.run.totalErrors = IF u.pc = "thrown" THEN @ + 1 ELSE @,
                        !.run.retry = NoUnit,
                        !.run.j = @ + 1]
        s2 == WriteOutput(updateProgress(s1, RoundPercent(completed, s.run.totalChunks)),
                          pushed)
    IN
    IF ~UnitDone(u) THEN s
    ELSE IF s2.run.j < len THEN StartIndividual(s2)
    ELSE NextWindow(s2)

(* The continuation of the await of the small-text path; a throw reaches   *)
(* the outer catch, which clears the output.                               *)
SingleSettles(s) ==
    LET u == s.run.retry IN
    IF ~UnitDone(u) THEN s
    ELSE IF s.run.thisTranslationId # s.cur THEN Abandon(s)
    ELSE IF u.pc = "returned"
    THEN [WriteOutput(updateProgress(s, 100), <<u.text>>) EXCEPT
             !.run.pc = "done", !.run.retry = NoUnit, !.busy = FALSE]
    ELSE [WriteOutput(s, <<>>) EXCEPT
             !.run.pc = "failed", !.run.retry = NoUnit, !.busy = FALSE]

NoLog == [batchCalls |-> 0, batchSleeps |-> 0, retryCalls |-> 0, retrySleeps |-> 0]

\* Faulty variant of requireAuth: everyone is let through.
requireAuthOpen == TRUE

(* requireAuth(): shows the authorization dialog and returns false when    *)
(* the user is not authenticated.                                          *)
requireAuth == isAuthenticated

(* Whether translateText of script p goes on past its first statement:     *)
(* only the second script calls requireAuth.                               *)
PassesGate(p) == p = 1 \/ requireAuth

(* checkAuthStatus() finds a saved authorization that has not expired, or  *)
(* checkAuthProgress() is told 'approved'.  Nothing resets the flag.       *)
Authenticate ==
    /\ ~isAuthenticated
    /\ isAuthenticated' = TRUE
    /\ UNCHANGED <<retryVars, docVars, textVars, batchVars, splitVars, langVars, backoffVars, autoVars, authVars>>

(* if (isTranslating) { showStatus(...); return; }                         *)
Refused(busy) == busy

(* currentTranslationId++; const thisTranslationId = currentTranslationId; *)
(* counter is the value before the call.                                   *)
thisTranslationId(counter) == counter + 1

(* What the history keeps of one call of translateText: the script, the    *)
(* event (key press or timer) that made the call, the text, whether a      *)
(* translation of that script was running, and the generation the call was *)
(* given (0: the call returned before taking one).                         *)
Request(p, ev, text, busy, id) ==
    [script |-> p, ev |-> ev, text |-> text, busy |-> busy, id |-> id]

(* The number of the event that comes next.                                *)
NextEvent(reqs) == IF reqs = <<>> THEN 1 ELSE reqs[Len(reqs)].ev + 1

(* translateText() of script p, up to its first await.  The second script  *)
(* returns at once for a user who is not authenticated.  A text that is    *)
(* empty after trim() clears the output; a call while isTranslating shows  *)
(* a status message and returns.  The calls of an earlier run that are     *)
(* still in flight belong to no window of the new run.                     *)
translateTextCalled(pg, p, text, ev) ==
    IF ~PassesGate(p) THEN pg
    ELSE IF text.kind = "empty" THEN [pg EXCEPT !.out = <<>>, !.by = NoWriter]
    ELSE IF Refused(pg.busy[p])
    THEN [pg EXCEPT !.reqs = Append(@, Request(p, ev, text, TRUE, 0))]
    ELSE LET id == thisTranslationId(pg.cur[p])
             s0 == [View(pg, p) EXCEPT
                      !.busy = TRUE,
                      !.cur = @ + 1,
                      !.run = [NoRun EXCEPT !.thisTranslationId = id,
                                            !.totalChunks = text.chunks,
                                            !.targetLang = TextLang],
                      !.units = [c \in 1..text.chunks |-> NoUnit],
                      !.log = [c \in 1..text.chunks |-> NoLog]]
             started ==
                 IF text.kind = "small"
                 THEN [updateProgress(s0, 10) EXCEPT
                         !.run.pc = "single",
                         !.run.retry = UnitStart("translateChunk", TextSource, TextLang, 1,
                                                 ChunkRetries),
                         !.log[1].batchCalls = 1]
                 ELSE LoopHead(updateProgress(s0, 5))
         IN [Put(pg, started) EXCEPT !.reqs = Append(@, Request(p, ev, text, FALSE, id))]

(* The calls and runs that the model follows are bounded.                  *)
WithinBounds(pg) ==
    /\ Len(pg.reqs) <= MaxRequests
    /\ \A p \in Scripts : pg.cur[p] <= MaxRuns

(* Ctrl+Enter: the keydown handler of the first script calls its           *)
(* translateText(), then the handler of the second script calls its own,   *)
(* for the text typed.  A key press that changes nothing is left out.      *)
clientTranslateText(text) ==
    /\ text.kind = "empty" => outputText # <<>>
    /\ LET ev == NextEvent(requests)
           pg == translateTextCalled(translateTextCalled(Page, 1, text, ev), 2, text, ev)
       IN WithinBounds(pg) /\ CommitPage(pg)
    /\ UNCHANGED <<parallelChunks, retryVars, docVars, queueVars, splitVars, langVars,
                   backoffVars, autoVars, authVars>>

HistoryPiece == <<[k |-> "history", lang |-> TextLang, of |-> 0, n |-> 0]>>

SourceLangs == {"AUTO", "EN"}

(* The items of the translation history: a source text that was not empty  *)
(* and its translation.                                                    *)
HistoryItems(rev) == {[kind |-> "small", chunks |-> 1, rev |-> rev]}

(* The value kept for the input field after a text was written to it.      *)
Written(field, text) == IF field = AnyInput THEN field ELSE text

(* swapLanguages() of either script: unless the source language is         *)
(* auto-detect, the two languages change places and so do the values of    *)
(* the input and the output field.  No timer is armed and isTranslating is *)
(* not read.                                                               *)
swapLanguages(fields) ==
    IF fields.source = "AUTO" THEN fields
    ELSE [source |-> fields.target, target |-> fields.source,
          input |-> fields.output, output |-> fields.input]

(* The click on the swap button: the handler of the first script swaps,    *)
(* then the handler of the second script swaps what it finds, so that the  *)
(* fields are as before unless the source language is auto-detect (then    *)
(* neither swaps).  Each handler also starts the 200 ms timer of           *)
(* addSuccessFeedback, which only resets the scale of the button; no       *)
(* debounce timer is armed.                                                *)
SwapButtonClicked(source) ==
    /\ LET fields == [source |-> source, target |-> TextLang,
                      input |-> inputText, output |-> outputText]
           after == swapLanguages(swapLanguages(fields))
       IN /\ inputText' = after.input
          /\ outputText' = after.output
    /\ UNCHANGED <<parallelChunks, isTranslating, currentTranslationId, progressBar, run,
                   batchPromises, chunkLog, requests, outputBy, autoTranslate, translateTimeout,
                   retryVars, docVars, queueVars, splitVars, langVars, backoffVars, authVars>>

(* The click on an item of the history list: its source text is written to *)
(* the input field and its translation to the output field.                *)
HistoryItemClicked(item) ==
    /\ inputText.rev < MaxEdits
    /\ item.rev = inputText.rev + 1
    /\ inputText' = Written(inputText, item)
    /\ outputText' = HistoryPiece
    /\ outputBy' = NoWriter
    /\ UNCHANGED <<parallelChunks, isTranslating, currentTranslationId, progressBar, run,
                   batchPromises, chunkLog, requests, autoTranslate, translateTimeout,
                   retryVars, docVars, queueVars, splitVars, langVars, backoffVars, authVars>>

(* The fetch of a call started by a window of script p settles with        *)
(* outcome o.  The call may belong to the window being awaited, or to a    *)
(* window that has already rejected.                                       *)
ChunkAnswers(p, c, o) ==
    /\ c \in DOMAIN batchPromises[p]
    /\ batchPromises[p][c].pc = "inflight"
    /\ LET u == UnitReturn(batchPromises[p][c], o)
           awaited == /\ run[p].pc = "window"
                      /\ c \in BatchOf(run[p].i, run[p].totalChunks, parallelChunks)
           s == [TextState(p) EXCEPT
                   !.units[c] = IF ~awaited /\ UnitDone(u) THEN NoUnit ELSE u,
                   !.log[c].batchSleeps = IF u.pc = "sleeping" THEN @ + 1 ELSE @]
       IN Commit(IF awaited THEN WindowSettles(s) ELSE s)
    /\ UNCHANGED <<parallelChunks, retryVars, docVars, queueVars, splitVars, langVars, backoffVars, autoVars, authVars>>

(* The backoff timer of a call started by a window of script p fires.      *)
ChunkWakes(p, c) ==
    /\ c \in DOMAIN batchPromises[p]
    /\ batchPromises[p][c].pc = "sleeping"
    /\ LET u == UnitWake(batchPromises[p][c]) IN
       Commit([TextState(p) EXCEPT
                 !.units[c] = u,
                 !.log[c].batchCalls = IF u.pc = "inflight" THEN @ + 1 ELSE @])
    /\ UNCHANGED <<parallelChunks, retryVars, docVars, queueVars, splitVars, langVars, backoffVars, autoVars, authVars>>

(* The fetch of the call that script p awaits alone (small text, or        *)
(* individual re-processing) settles with outcome o.                       *)
IndividualAnswers(p, o) ==
    /\ run[p].pc \in {"single", "individual"}
    /\ run[p].retry.pc = "inflight"
    /\ LET u == UnitReturn(run[p].retry, o)
           c == u.of
           s == [TextState(p) EXCEPT
                   !.run.retry = u,
                   !.log[c] = IF u.pc # "sleeping" THEN @
                              ELSE IF run[p].pc = "single" THEN [@ EXCEPT !.batchSleeps = @ + 1]
                              ELSE [@ EXCEPT !.retrySleeps = @ + 1]]
       IN Commit(IF run[p].pc = "single" THEN SingleSettles(s) ELSE IndividualSettles(s))
    /\ UNCHANGED <<parallelChunks, retryVars, docVars, queueVars, splitVars, langVars, backoffVars, autoVars, authVars>>

(* The backoff timer of the call that script p awaits alone fires.         *)
IndividualWakes(p) ==
    /\ run[p].pc \in {"single", "individual"}
    /\ run[p].retry.pc = "sleeping"
    /\ LET u == UnitWake(run[p].retry)
           c == u.of
       IN
       Commit([TextState(p) EXCEPT
                 !.run.retry = u,
                 !.log[c] = IF u.pc # "inflight" THEN @
                            ELSE IF run[p].pc = "single" THEN [@ EXCEPT !.batchCalls = @ + 1]
                            ELSE [@ EXCEPT !.retryCalls = @ + 1]])
    /\ UNCHANGED <<parallelChunks, retryVars, docVars, queueVars, splitVars, langVars, backoffVars, autoVars, authVars>>

(* The backoff sleeps begun so far by the calls that script p made for     *)
(* chunks 1..n of its run.                                                 *)
RECURSIVE BackoffsUpTo(_, _)
BackoffsUpTo(p, n) ==
    IF n = 0 THEN 0
    ELSE BackoffsUpTo(p, n - 1) + chunkLog[p][n].batchSleeps + chunkLog[p][n].retrySleeps

(* The backoff sleeps begun by the runs of the two scripts together.       *)
Backoffs == BackoffsUpTo(1, Len(chunkLog[1])) + BackoffsUpTo(2, Len(chunkLog[2]))

TextStart ==
    /\ RetryIdle
    /\ DocIdle
    /\ QueueIdle
    /\ SplitIdle
    /\ LangIdle
    /\ isAuthenticated \in BOOLEAN
    /\ parallelChunks \in 1..PARALLEL_CHUNKS
    /\ isTranslating = [p \in Scripts |-> FALSE]
    /\ currentTranslationId = [p \in Scripts |-> 0]
    /\ outputText = <<>>
    /\ outputBy = NoWriter
    /\ progressBar = 0
    /\ run = [p \in Scripts |-> NoRun]
    /\ batchPromises = [p \in Scripts |-> <<>>]
    /\ chunkLog = [p \in Scripts |-> <<>>]
    /\ requests = <<>>

(* The page as loaded.  What the input field holds is not kept: every      *)
(* key press draws it anew.  No timer is armed here: the checkbox of       *)
(* auto-translation is read by scheduleAutoTranslate alone, whose timers   *)
(* are followed from AutoInit.                                             *)
TextInit ==
    /\ TextStart
    /\ inputText = AnyInput
    /\ autoTranslate = TRUE
    /\ translateTimeout = [p \in Scripts |-> FALSE]
    /\ sessions = <<>>
    /\ webhookCalls = <<>>
    /\ approvalRequests = <<>>

(***************************************************************************)
(* SpecText: the translations that one press of Ctrl+Enter starts, one by  *)
(* each script, of a text of at most MaxChunks chunks, for every           *)
(* concurrency up to CONFIG.PARALLEL_CHUNKS.                               *)
(***************************************************************************)
(* How the Translation Client answers in SpecText: it stops failing once   *)
(* more than MaxTextBackoffs backoff sleeps have begun.                    *)
TextAnswers == IF Backoffs <= MaxTextBackoffs THEN TextOutcomes ELSE {OkOutcome}

(* The first call of translateText that goes on to translate.              *)
FirstRequest(text) == requests = <<>> /\ clientTranslateText(text)

TextNext ==
    \/ Authenticate
    \/ \E text \in TextInputs : FirstRequest(text)
    \/ \E p \in Scripts, c \in 1..MaxChunks, o \in TextAnswers : ChunkAnswers(p, c, o)
    \/ \E p \in Scripts, c \in 1..MaxChunks : ChunkWakes(p, c)
    \/ \E p \in Scripts, o \in TextAnswers : IndividualAnswers(p, o)
    \/ \E p \in Scripts : IndividualWakes(p)

SpecText == TextInit /\ [][TextNext]_vars

(***************************************************************************)
(* SpecRequests: Ctrl+Enter pressed again and again, also while            *)
(* translations are in flight, and the clicks that write to the fields.    *)
(* The Translation Client may fail the calls made for a text of one chunk  *)
(* (whose failure ends the run) and answers all others.                    *)
(***************************************************************************)
RequestOutcomes(p) == IF run[p].pc = "single" THEN TextOutcomes ELSE {OkOutcome}

RequestsNext ==
    \/ Authenticate
    \/ \E text \in TextInputs : clientTranslateText(text)
    \/ \E source \in SourceLangs : SwapButtonClicked(source)
    \/ \E item \in HistoryItems(inputText.rev + 1) : HistoryItemClicked(item)
    \/ \E p \in Scripts, c \in 1..MaxChunks : ChunkAnswers(p, c, OkOutcome)
    \/ \E p \in Scripts : \E o \in RequestOutcomes(p) : IndividualAnswers(p, o)
    \/ \E p \in Scripts : IndividualWakes(p)

SpecRequests == TextInit /\ [][RequestsNext]_vars

(***************************************************************************)
(* SpecWindow: the translations that one press of Ctrl+Enter starts, one   *)
(* by each script, of a text of MaxWindowChunks chunks (a full window and  *)
(* a shorter one), with CONFIG.PARALLEL_CHUNKS as the source sets it.      *)
(***************************************************************************)
LongTexts == {[kind |-> "large", chunks |-> MaxWindowChunks]}

(* The other page script.                                                  *)
Other(p) == CHOOSE q \in Scripts : q # p

(* How the Translation Client answers a call of script p: it fails calls   *)
(* of one script only (of p, when no call of the other script has begun a  *)
(* backoff sleep), and stops failing once more than MaxBackoffs backoff    *)
(* sleeps have begun.                                                      *)
WindowOutcomes(p) ==
    IF Backoffs <= MaxBackoffs /\ BackoffsUpTo(Other(p), Len(chunkLog[Other(p)])) = 0
    THEN TextOutcomes
    ELSE {OkOutcome}

WindowInit == TextInit /\ parallelChunks = PARALLEL_CHUNKS

WindowNext ==
    \/ Authenticate
    \/ \E text \in LongTexts : FirstRequest(text)
    \/ \E p \in Scripts, c \in 1..MaxWindowChunks : \E o \in WindowOutcomes(p) : ChunkAnswers(p, c, o)
    \/ \E p \in Scripts, c \in 1..MaxWindowChunks : ChunkWakes(p, c)
    \/ \E p \in Scripts : \E o \in WindowOutcomes(p) : IndividualAnswers(p, o)
    \/ \E p \in Scripts : IndividualWakes(p)

SpecWindow == WindowInit /\ [][WindowNext]_vars

(***************************************************************************)
(* SpecBar: the progress bar during the translation of a text of           *)
(* MaxBarChunks chunks, as CONFIG.MAX_CHARS allows, with                   *)
(* CONFIG.PARALLEL_CHUNKS as the source sets it.  The bar belongs to the   *)
(* second script, whose run is followed to its end: the Translation Client *)
(* may fail the calls made for its first chunk, and answers all others.    *)
(* The calls of the first script are followed up to the end of its first   *)
(* window.                                                                 *)
(***************************************************************************)
BarTexts == {[kind |-> "large", chunks |-> MaxBarChunks]}

BarOutcomes(c) == IF c = 1 THEN TextOutcomes ELSE {OkOutcome}

BarNext ==
    \/ Authenticate
    \/ \E text \in BarTexts : FirstRequest(text)
    \/ \E c \in 1..MaxBarChunks : \E o \in BarOutcomes(c) : ChunkAnswers(2, c, o)
    \/ \E c \in 1..PARALLEL_CHUNKS : ChunkAnswers(1, c, OkOutcome)
    \/ \E c \in 1..MaxBarChunks : ChunkWakes(2, c)
    \/ \E o \in BarOutcomes(run[2].retry.of) : IndividualAnswers(2, o)
    \/ IndividualWakes(2)

SpecBar == WindowInit /\ [][BarNext]_vars

(***************************************************************************)
(* SpecAuto: auto-translation.  Every edit of the input text and every     *)
(* change of a language arms the debounce timer of each script anew; when  *)
(* a timer fires, its script calls translateText(true) for the text the    *)
(* input field then holds.  Revision n of the input is the text after the  *)
(* n-th time the field was written, by the user or by a button.            *)
(***************************************************************************)
(* scheduleAutoTranslate() of script p: whether its timer is armed         *)
(* afterwards.  Only the second script asks for an authenticated user.     *)
scheduleAutoTranslate(p, armed) ==
    IF ~autoTranslate THEN armed
    ELSE IF p = 2 /\ ~isAuthenticated THEN armed
    ELSE TRUE

(* What an edit can leave in the input field: nothing, or a text of at     *)
(* most CHUNK_SIZE characters.                                             *)
EditedTexts(rev) ==
    {[kind |-> "empty", chunks |-> 0, rev |-> rev],
     [kind |-> "small", chunks |-> 1, rev |-> rev]}

(* The "input" event of the input field: the user has edited the text.     *)
InputEdited(text) ==
    /\ inputText.rev < MaxEdits
    /\ text.rev = inputText.rev + 1
    /\ inputText' = text
    /\ translateTimeout' = [p \in Scripts |-> scheduleAutoTranslate(p, translateTimeout[p])]
    /\ UNCHANGED <<autoTranslate, retryVars, docVars, textVars, queueVars, splitVars, langVars,
                   backoffVars, authVars>>

(* The "change" event of sourceLangSelect or targetLangSelect: the timers  *)
(* are armed anew, the text is as it was.                                  *)
LanguageChanged ==
    /\ translateTimeout' = [p \in Scripts |-> scheduleAutoTranslate(p, translateTimeout[p])]
    /\ UNCHANGED <<inputText, autoTranslate, retryVars, docVars, textVars, queueVars, splitVars,
                   langVars, backoffVars, authVars>>

(* The "change" event of the auto-translate checkbox.                      *)
AutoTranslateToggled ==
    /\ autoTranslate' = ~autoTranslate
    /\ UNCHANGED <<inputText, translateTimeout, retryVars, docVars, textVars, queueVars,
                   splitVars, langVars, backoffVars, authVars>>

(* The debounce timer of script p fires: translateText(true).  The two     *)
(* timers are armed by the same events with the same delay, the one of the *)
(* first script first, so that the timer of the second script fires after  *)
(* the one of the first when both are armed.                               *)
AutoTranslateFires(p) ==
    /\ translateTimeout[p]
    /\ p = 2 => ~translateTimeout[1]
    /\ translateTimeout' = [translateTimeout EXCEPT ![p] = FALSE]
    /\ LET pg == translateTextCalled(Page, p, inputText, NextEvent(requests))
       IN WithinBounds(pg) /\ CommitPage(pg)
    /\ UNCHANGED <<parallelChunks, retryVars, docVars, queueVars, splitVars, langVars,
                   backoffVars, inputText, autoTranslate, authVars>>

(* How the Translation Client answers a call: its last attempt succeeds,   *)
(* so that every call of translateChunk returns a translation.             *)
AutoOutcomes(u) == IF u.attempt < ChunkRetries THEN TextOutcomes ELSE {OkOutcome}

(* The texts the input field can hold when the page is loaded (a reloaded  *)
(* page keeps the value of its fields).                                    *)
LoadedTexts == {NoInput} \cup EditedTexts(0)

(* The page as loaded: setupSettings() of either script sets the checkbox  *)
(* from localStorage item 'autoTranslateEnabled' (checked unless it is     *)
(* 'false'); the set-up of a script arms its timer when the input field    *)
(* holds a text (second script: and the user is authenticated).            *)
AutoInit ==
    /\ TextStart
    /\ parallelChunks = PARALLEL_CHUNKS
    /\ inputText \in LoadedTexts
    /\ autoTranslate \in BOOLEAN
    /\ translateTimeout =
           [p \in Scripts |->
               IF inputText.kind # "empty" /\ (p = 2 => isAuthenticated)
               THEN scheduleAutoTranslate(p, FALSE)
               ELSE FALSE]
    /\ sessions = <<>>
    /\ webhookCalls = <<>>
    /\ approvalRequests = <<>>

(* The texts of EditedTexts are of one chunk: translateText translates     *)
(* them with one call of translateChunk, without a window of parallel      *)
(* calls.                                                                  *)
AutoAnswers == \E p \in Scripts : \E o \in AutoOutcomes(run[p].retry) : IndividualAnswers(p, o)

AutoWakes == \E p \in Scripts : IndividualWakes(p)

AutoFires == \E p \in Scripts : AutoTranslateFires(p)

AutoNext ==
    \/ Authenticate
    \/ \E text \in EditedTexts(inputText.rev + 1) : InputEdited(text)
    \/ \E source \in SourceLangs : SwapButtonClicked(source)
    \/ \E item \in HistoryItems(inputText.rev + 1) : HistoryItemClicked(item)
    \/ LanguageChanged
    \/ AutoTranslateToggled
    \/ AutoFires
    \/ AutoAnswers
    \/ AutoWakes

(* Timers fire, and every call of the client is answered.                  *)
AutoFairness ==
    /\ WF_vars(AutoFires)
    /\ WF_vars(AutoAnswers)
    /\ WF_vars(AutoWakes)

SpecAuto == AutoInit /\ [][AutoNext]_vars /\ AutoFairness

(***************************************************************************)
(* The document queue of the browser client (script.js): files are added   *)
(* to documentQueue; startBatchProcessing walks a copy of the queue, one   *)
(* processDocument at a time: the upload request, then                     *)
(* trackDocumentProgress, which polls the task status every 2 s into the   *)
(* queue item and waits (checking every 100 ms) until the item's status is *)
(* completed or error; then a pause of 500 ms before the next item.        *)
(* The pause button clears isProcessingBatch, the clear button empties the *)
(* queue.  Items are named 1, 2, ... in the order they were added; a task  *)
(* of the documents API is named by its position in remoteTask.            *)
(***************************************************************************)
NewQueueItem == [status |-> "pending", progress |-> Rat(0), taskId |-> 0,
                 targetLangs |-> selectedTargetLanguages]

(* A task as handleTaskStatus reports it: processDocumentAsync has set it  *)
(* to processing / 10 before the task id is returned.  totalLangs is the   *)
(* number of its target languages, i the number of those done.             *)
NewRemoteTask(totalLangs) ==
    [status |-> "processing", progress |-> Rat(10), totalLangs |-> totalLangs, i |-> 0]

(* The steps of processDocumentAsync as the status request can see them:   *)
(* text extracted (20; completed, 100 at once for a task without target    *)
(* languages), a language done that is not the last one                    *)
(* (20 + (80 / totalLangs) * (i + 1)), all languages done (completed,      *)
(* 100), or the outer catch (error, progress left as it is).               *)
RemoteSteps(t) ==
    IF t.status # "processing" THEN {}
    ELSE {[t EXCEPT !.status = "error"]}
         \cup (IF t.progress = Rat(10) /\ t.totalLangs > 0
               THEN {[t EXCEPT !.progress = Rat(20)]}
               ELSE IF t.i + 1 < t.totalLangs
               THEN {[t EXCEPT !.i = @ + 1,
                               !.progress = LangProgress(apiVersion, t.i + 1, t.totalLangs)]}
               ELSE {[t EXCEPT !.status = "completed", !.progress = Rat(100),
                               !.i = t.totalLangs]})

(* A status request of a poller: the task id in its URL, and the task as   *)
(* handleTaskStatus has read it, once it has.                              *)
NewPoll(taskId) == [taskId |-> taskId, served |-> FALSE, task |-> NewRemoteTask(0)]

(* documentQueue.indexOf(queueItem): the position (from 1), 0 when absent. *)
IndexOf(queue, id) ==
    IF \E k \in 1..Len(queue) : queue[k] = id
    THEN CHOOSE k \in 1..Len(queue) : queue[k] = id /\ \A j \in 1..(k - 1) : queue[j] # id
    ELSE 0

RemoveAt(queue, k) == [j \in 1..(Len(queue) - 1) |-> IF j < k THEN queue[j] ELSE queue[j + 1]]

(* documentQueue.splice(documentQueue.indexOf(queueItem), 1): indexOf      *)
(* gives -1 for an item that is no longer in the queue, and splice(-1, 1)  *)
(* removes the last element.                                               *)
Splice(queue, id) ==
    IF queue = <<>> THEN queue
    ELSE IF IndexOf(queue, id) = 0 THEN RemoveAt(queue, Len(queue))
    ELSE RemoveAt(queue, IndexOf(queue, id))

(* A call of startBatchProcessing: the copy of the queue it walks, the     *)
(* position in it, and where it waits: "upload" (the process request),     *)
(* "track" (trackDocumentProgress), "sleep" (the 500 ms), or "done".       *)
NewBatchRun(queue) == [snapshot |-> queue, pos |-> 1, pc |-> "upload"]

CurrentItem(r) == r.snapshot[r.pos]

(* processDocument(queueItem), up to its first await.                      *)
processDocumentStart(items, id) ==
    [items EXCEPT ![id].status = "processing", ![id].progress = Rat(0)]

\* Faulty variant of BatchAllowed: the batch starts without authorization.
BatchAllowedOpen(queue, auth) == queue # <<>>

(* The two early returns of startBatchProcessing.                          *)
BatchAllowed(queue, auth) == queue # <<>> /\ auth

(* handleFileSelection with one valid file: addFileToQueue.                *)
addFileToQueue ==
    /\ Len(queueItem) < MaxItems
    /\ queueItem' = Append(queueItem, NewQueueItem)
    /\ documentQueue' = Append(documentQueue, Len(queueItem) + 1)
    /\ UNCHANGED <<completedDocuments, isProcessingBatch, batchRun, checkInterval, remoteTask,
                   pausedRuns, isAuthenticated, retryVars, docVars, textVars, splitVars, langVars, backoffVars, autoVars, authVars>>

(* A click on the start button, which updateBatchControls hides while      *)
(* isProcessingBatch: startBatchProcessing up to its first await, the      *)
(* upload request of the first item of the copy.                           *)
startBatchProcessing ==
    /\ ~isProcessingBatch
    /\ Len(batchRun) < MaxBatchRuns
    /\ BatchAllowed(documentQueue, isAuthenticated)
    /\ isProcessingBatch' = TRUE
    /\ batchRun' = Append(batchRun, NewBatchRun(documentQueue))
    /\ queueItem' = processDocumentStart(queueItem, documentQueue[1])
    /\ UNCHANGED <<documentQueue, completedDocuments, checkInterval, remoteTask, pausedRuns,
                   isAuthenticated, retryVars, docVars, textVars, splitVars, langVars, backoffVars, autoVars, authVars>>

(* A click on the pause button, which is shown while isProcessingBatch.    *)
pauseBatch ==
    /\ isProcessingBatch
    /\ isProcessingBatch' = FALSE
    /\ pausedRuns' = pausedRuns \cup {r \in DOMAIN batchRun : batchRun[r].pc # "done"}
    /\ UNCHANGED <<documentQueue, completedDocuments, queueItem, batchRun, checkInterval,
                   remoteTask, isAuthenticated, retryVars, docVars, textVars, splitVars, langVars, backoffVars, autoVars, authVars>>

(* The early return of clearDocumentQueue; the user confirms the dialog.   *)
(* Whether a batch is running is not looked at.                            *)
ClearAllowed(queue, running) == queue # <<>>

clearDocumentQueue ==
    /\ ClearAllowed(documentQueue, isProcessingBatch)
    /\ documentQueue' = <<>>
    /\ UNCHANGED <<completedDocuments, queueItem, isProcessingBatch, batchRun, checkInterval,
                   remoteTask, pausedRuns, isAuthenticated, retryVars, docVars, textVars, splitVars, langVars, backoffVars, autoVars, authVars>>

(* The process request of run r is answered.  With success the task id is  *)
(* stored and trackDocumentProgress sets up its poller; otherwise          *)
(* processDocument and the loop's catch mark the item as error, and the    *)
(* loop goes to its 500 ms pause.  MaxRemoteTasks bounds the tasks of the  *)
(* server: once they exist, no further process request is followed.        *)
UploadAnswers(r, success) ==
    /\ r \in DOMAIN batchRun
    /\ batchRun[r].pc = "upload"
    /\ Len(remoteTask) < MaxRemoteTasks
    /\ LET id == CurrentItem(batchRun[r]) IN
       IF success
       THEN /\ remoteTask' = Append(remoteTask, NewRemoteTask(Len(queueItem[id].targetLangs)))
            /\ queueItem' = [queueItem EXCEPT ![id].taskId = Len(remoteTask) + 1,
                                              ![id].progress = Rat(10)]
            /\ checkInterval' = Append(checkInterval,
                                       [item |-> id, active |-> TRUE, polls |-> <<>>])
            /\ batchRun' = [batchRun EXCEPT ![r].pc = "track"]
       ELSE /\ queueItem' = [queueItem EXCEPT ![id].status = "error"]
            /\ batchRun' = [batchRun EXCEPT ![r].pc = "sleep"]
            /\ UNCHANGED <<remoteTask, checkInterval>>
    /\ UNCHANGED <<documentQueue, completedDocuments, isProcessingBatch, pausedRuns,
                   isAuthenticated, retryVars, docVars, textVars, splitVars, langVars, backoffVars, autoVars, authVars>>

(* The status requests in flight, of the first n pollers together          *)
(* (MaxPolls bounds their number).                                         *)
RECURSIVE PollsInFlight(_)
PollsInFlight(n) ==
    IF n = 0 THEN 0 ELSE Len(checkInterval[n].polls) + PollsInFlight(n - 1)

(* The 2 s timer of poller p fires, whether or not an earlier request is   *)
(* still in flight: the status of the item's task (its taskId at this      *)
(* moment) is requested.                                                   *)
PollAsks(p) ==
    /\ p \in DOMAIN checkInterval
    /\ checkInterval[p].active
    /\ PollsInFlight(Len(checkInterval)) < MaxPolls
    /\ checkInterval' = [checkInterval EXCEPT
                           ![p].polls = Append(@, NewPoll(queueItem[checkInterval[p].item].taskId))]
    /\ UNCHANGED <<documentQueue, completedDocuments, queueItem, isProcessingBatch, batchRun,
                   remoteTask, pausedRuns, isAuthenticated, retryVars, docVars, textVars, splitVars, langVars, backoffVars, autoVars, authVars>>

(* handleTaskStatus serves request k of poller p: the task as it is now.   *)
StatusServed(p, k) ==
    /\ p \in DOMAIN checkInterval
    /\ k \in DOMAIN checkInterval[p].polls
    /\ ~checkInterval[p].polls[k].served
    /\ checkInterval' = [checkInterval EXCEPT
                           ![p].polls[k].served = TRUE,
                           ![p].polls[k].task = remoteTask[checkInterval[p].polls[k].taskId]]
    /\ UNCHANGED <<documentQueue, completedDocuments, queueItem, isProcessingBatch, batchRun,
                   remoteTask, pausedRuns, isAuthenticated, retryVars, docVars, textVars, splitVars, langVars, backoffVars, autoVars, authVars>>

(* The answer to request k of poller p arrives, in whatever order the      *)
(* requests were made: progress and status of the task are copied into the *)
(* queue item; the poller is cleared when the task is completed or error.  *)
PollAnswers(p, k) ==
    /\ p \in DOMAIN checkInterval
    /\ k \in DOMAIN checkInterval[p].polls
    /\ checkInterval[p].polls[k].served
    /\ LET id == checkInterval[p].item
           t == checkInterval[p].polls[k].task
       IN
       /\ queueItem' = [queueItem EXCEPT ![id].progress = t.progress, ![id].status = t.status]
       /\ checkInterval' = [checkInterval EXCEPT
                              ![p].polls = RemoveAt(@, k),
                              ![p].active = @ /\ t.status \notin {"completed", "error"}]
    /\ UNCHANGED <<documentQueue, completedDocuments, isProcessingBatch, batchRun, remoteTask,
                   pausedRuns, isAuthenticated, retryVars, docVars, textVars, splitVars, langVars, backoffVars, autoVars, authVars>>

(* The 100 ms check of trackDocumentProgress in run r sees the item        *)
(* completed (processDocument moves it to the completed list) or error     *)
(* (processDocument and the loop's catch); the loop goes to its pause.     *)
TrackSettles(r) ==
    /\ r \in DOMAIN batchRun
    /\ batchRun[r].pc = "track"
    /\ LET id == CurrentItem(batchRun[r]) IN
       /\ queueItem[id].status \in {"completed", "error"}
       /\ IF queueItem[id].status = "completed"
          THEN /\ completedDocuments' = Append(completedDocuments, id)
               /\ documentQueue' = Splice(documentQueue, id)
          ELSE UNCHANGED <<completedDocuments, documentQueue>>
    /\ batchRun' = [batchRun EXCEPT ![r].pc = "sleep"]
    /\ UNCHANGED <<queueItem, isProcessingBatch, checkInterval, remoteTask, pausedRuns,
                   isAuthenticated, retryVars, docVars, textVars, splitVars, langVars, backoffVars, autoVars, authVars>>

(* The 500 ms pause of run r ends: the next item of the copy, unless the   *)
(* copy is exhausted or isProcessingBatch is false; leaving the loop       *)
(* clears isProcessingBatch.                                               *)
NextDocument(r) ==
    /\ r \in DOMAIN batchRun
    /\ batchRun[r].pc = "sleep"
    /\ IF batchRun[r].pos < Len(batchRun[r].snapshot) /\ isProcessingBatch
       THEN /\ batchRun' = [batchRun EXCEPT ![r].pos = @ + 1, ![r].pc = "upload"]
            /\ queueItem' = processDocumentStart(queueItem,
                                                 batchRun[r].snapshot[batchRun[r].pos + 1])
            /\ UNCHANGED isProcessingBatch
       ELSE /\ batchRun' = [batchRun EXCEPT ![r].pc = "done"]
            /\ isProcessingBatch' = FALSE
            /\ UNCHANGED queueItem
    /\ UNCHANGED <<documentQueue, completedDocuments, checkInterval, remoteTask, pausedRuns,
                   isAuthenticated, retryVars, docVars, textVars, splitVars, langVars, backoffVars, autoVars, authVars>>

(* processDocumentAsync of task t takes a step on the server.              *)
RemoteAdvances(t) ==
    /\ t \in DOMAIN remoteTask
    /\ \E next \in RemoteSteps(remoteTask[t]) : remoteTask' = [remoteTask EXCEPT ![t] = next]
    /\ UNCHANGED <<documentQueue, completedDocuments, queueItem, isProcessingBatch, batchRun,
                   checkInterval, pausedRuns, isAuthenticated, retryVars, docVars, textVars, splitVars, langVars, backoffVars, autoVars, authVars>>

QueueInit ==
    /\ RetryIdle
    /\ DocIdle
    /\ TextIdle
    /\ QueueIdle
    /\ SplitIdle
    /\ LangIdle
    /\ AutoIdle
    /\ isAuthenticated \in BOOLEAN

QueueNext ==
    \/ Authenticate
    \/ addFileToQueue
    \/ startBatchProcessing
    \/ pauseBatch
    \/ clearDocumentQueue
    \/ \E r \in 1..MaxBatchRuns, success \in BOOLEAN : UploadAnswers(r, success)
    \/ \E p \in 1..MaxRemoteTasks : PollAsks(p)
    \/ \E p \in 1..MaxRemoteTasks, k \in 1..MaxPolls : StatusServed(p, k)
    \/ \E p \in 1..MaxRemoteTasks, k \in 1..MaxPolls : PollAnswers(p, k)
    \/ \E r \in 1..MaxBatchRuns : TrackSettles(r)
    \/ \E r \in 1..MaxBatchRuns : NextDocument(r)
    \/ \E t \in 1..MaxRemoteTasks : RemoteAdvances(t)

SpecQueue == QueueInit /\ [][QueueNext]_vars

(***************************************************************************)
(* SpecTrack: the wait of trackDocumentProgress for one file, with status  *)
(* polls that overlap and can fail.  The queue is started and left to run  *)
(* (no pause, no clear).                                                   *)
(***************************************************************************)
(* Request k of poller p rejects, or its answer is no JSON: the catch      *)
(* block clears the poller and throws inside the timer callback, where     *)
(* nothing catches it.  The queue item is left as it is.                   *)
PollFails(p, k) ==
    /\ p \in DOMAIN checkInterval
    /\ k \in DOMAIN checkInterval[p].polls
    /\ checkInterval' = [checkInterval EXCEPT ![p].polls = RemoveAt(@, k), ![p].active = FALSE]
    /\ UNCHANGED <<documentQueue, completedDocuments, queueItem, isProcessingBatch, batchRun,
                   remoteTask, pausedRuns, isAuthenticated, retryVars, docVars, textVars,
                   splitVars, langVars, backoffVars, autoVars, authVars>>

(* Request k of poller p is answered without success (404 Task not         *)
(* found): nothing is copied, the poller goes on.                          *)
PollFindsNoTask(p, k) ==
    /\ p \in DOMAIN checkInterval
    /\ k \in DOMAIN checkInterval[p].polls
    /\ ~checkInterval[p].polls[k].served
    /\ checkInterval' = [checkInterval EXCEPT ![p].polls = RemoveAt(@, k)]
    /\ UNCHANGED <<documentQueue, completedDocuments, queueItem, isProcessingBatch, batchRun,
                   remoteTask, pausedRuns, isAuthenticated, retryVars, docVars, textVars,
                   splitVars, langVars, backoffVars, autoVars, authVars>>

(* The page with no target language selected (the tag of EN removed), one  *)
(* or two.                                                                 *)
TrackSelections == {<<>>, <<"EN">>, <<"EN", "DE">>}

TrackInit ==
    /\ RetryIdle
    /\ DocIdle
    /\ TextIdle
    /\ QueueIdle
    /\ SplitIdle
    /\ AutoIdle
    /\ isAuthenticated \in BOOLEAN
    /\ selectedTargetLanguages \in TrackSelections
    /\ savedLanguages = NoItem
    /\ pageSetUp = TRUE
    /\ sleepLog = <<>>

(* The first file is added to the queue.                                   *)
FirstFileAdded == queueItem = <<>> /\ addFileToQueue

TrackNext ==
    \/ Authenticate
    \/ FirstFileAdded
    \/ startBatchProcessing
    \/ \E r \in 1..MaxBatchRuns, success \in BOOLEAN : UploadAnswers(r, success)
    \/ \E p \in 1..MaxRemoteTasks : PollAsks(p)
    \/ \E p \in 1..MaxRemoteTasks, k \in 1..MaxPolls : StatusServed(p, k)
    \/ \E p \in 1..MaxRemoteTasks, k \in 1..MaxPolls : PollAnswers(p, k)
    \/ \E p \in 1..MaxRemoteTasks, k \in 1..MaxPolls : PollFails(p, k)
    \/ \E p \in 1..MaxRemoteTasks, k \in 1..MaxPolls : PollFindsNoTask(p, k)
    \/ \E r \in 1..MaxBatchRuns : TrackSettles(r)
    \/ \E r \in 1..MaxBatchRuns : NextDocument(r)
    \/ \E t \in 1..MaxRemoteTasks : RemoteAdvances(t)

(* Timers fire and requests are answered; a status request that is made    *)
(* again and again is answered with the task some time.  No request has to *)
(* fail.                                                                   *)
TrackFairness ==
    /\ \A p \in 1..MaxRemoteTasks :
          /\ WF_vars(PollAsks(p))
          /\ \A k \in 1..MaxPolls : WF_vars(StatusServed(p, k)) /\ SF_vars(PollAnswers(p, k))
    /\ \A r \in 1..MaxBatchRuns :
          /\ WF_vars(TrackSettles(r))
          /\ WF_vars(NextDocument(r))
          /\ WF_vars(\E success \in BOOLEAN : UploadAnswers(r, success))
    /\ \A t \in 1..MaxRemoteTasks : WF_vars(RemoteAdvances(t))

SpecTrack == TrackInit /\ [][TrackNext]_vars /\ TrackFairness

(***************************************************************************)
(* The selection of target languages for documents (script.js).  The list  *)
(* is kept in selectedTargetLanguages and saved as JSON in localStorage    *)
(* at every change; the script loads it when the page is loaded.  A queue  *)
(* item takes a copy of the list when the file is added.                   *)
(***************************************************************************)
LangOptions == {"EN", "DE", "FR"}

Includes(list, x) == \E k \in 1..Len(list) : list[k] = x

(* list.filter(lang => lang !== langCode)                                  *)
FilterOut(list, langCode) == SelectSeq(list, LAMBDA lang : lang # langCode)

(* The sequences over LangOptions, with and without repeated elements.     *)
RECURSIVE ListsOfLength(_)
ListsOfLength(n) ==
    IF n = 0 THEN {<<>>}
    ELSE {Append(l, x) : l \in ListsOfLength(n - 1), x \in LangOptions}
SavedLists == UNION {ListsOfLength(n) : n \in 0..Cardinality(LangOptions)}

(* JSON texts that JSON.parse accepts and that are no array: null, "EN",   *)
(* {} and 0.                                                               *)
NonListValues == {"null", "EN", "{}", "0"}

(* What localStorage holds when the page is loaded: nothing, a text that   *)
(* JSON.parse rejects, the JSON of a list of language codes (the script    *)
(* saves lists without a repeated code; other lists come from elsewhere),  *)
(* or the JSON of a value that is no list.                                 *)
SavedItems ==
    {NoItem, [k |-> "broken", langs |-> <<>>]}
    \cup {[k |-> "json", langs |-> l] : l \in SavedLists}
    \cup {[k |-> "value", langs |-> v] : v \in NonListValues}

(* saveSelectedLanguages: localStorage.setItem(..., JSON.stringify(list))  *)
SavedAs(list) == [k |-> "json", langs |-> list]

(* selectedTargetLanguages after loadSelectedLanguages: what JSON.parse    *)
(* returned, list or not; ['EN'] when it threw.                            *)
Loaded(saved, current) ==
    CASE saved.k = "none" -> current
      [] saved.k \in {"json", "value"} -> saved.langs
      [] OTHER -> <<"EN">>

(* updateSelectedLanguagesDisplay at the end of loadSelectedLanguages      *)
(* calls selectedTargetLanguages.forEach: for a value that is no list it   *)
(* throws a TypeError out of the set-up of the page, and the listeners     *)
(* registered after it are never registered.                               *)
SetUpCompletes(saved) == saved.k # "value"

\* Faulty variant of Added: the language is pushed without looking.
AddedBlindly(list, selectedLang) == Append(list, selectedLang)

(* selectedTargetLanguages after addTargetLanguage                         *)
Added(list, selectedLang) ==
    IF ~Includes(list, selectedLang) THEN Append(list, selectedLang) ELSE list

(* A click on the add button with selectedLang chosen in the select.       *)
addTargetLanguage(selectedLang) ==
    /\ pageSetUp
    /\ selectedTargetLanguages' = Added(selectedTargetLanguages, selectedLang)
    /\ savedLanguages' = IF ~Includes(selectedTargetLanguages, selectedLang)
                         THEN SavedAs(selectedTargetLanguages') ELSE savedLanguages
    /\ UNCHANGED <<pageSetUp, retryVars, docVars, textVars, queueVars, splitVars, backoffVars, autoVars, authVars>>

(* A click on the x of a language tag.                                     *)
removeTargetLanguage(langCode) ==
    /\ pageSetUp
    /\ selectedTargetLanguages' = FilterOut(selectedTargetLanguages, langCode)
    /\ savedLanguages' = SavedAs(selectedTargetLanguages')
    /\ UNCHANGED <<pageSetUp, retryVars, docVars, textVars, queueVars, splitVars, backoffVars, autoVars, authVars>>

(* The page is loaded again: the script starts with ['EN'] and an empty    *)
(* queue and calls loadSelectedLanguages.                                  *)
loadSelectedLanguages ==
    /\ selectedTargetLanguages' = Loaded(savedLanguages, <<"EN">>)
    /\ pageSetUp' = SetUpCompletes(savedLanguages)
    /\ documentQueue' = <<>>
    /\ completedDocuments' = <<>>
    /\ queueItem' = <<>>
    /\ isProcessingBatch' = FALSE
    /\ batchRun' = <<>>
    /\ checkInterval' = <<>>
    /\ remoteTask' = <<>>
    /\ pausedRuns' = {}
    /\ UNCHANGED <<savedLanguages, isAuthenticated, retryVars, docVars, textVars, splitVars,
                   backoffVars, autoVars, authVars>>

LangInit ==
    /\ RetryIdle
    /\ DocIdle
    /\ TextIdle
    /\ QueueIdle
    /\ SplitIdle
    /\ isAuthenticated = FALSE
    /\ savedLanguages \in SavedItems
    /\ selectedTargetLanguages = Loaded(savedLanguages, <<"EN">>)
    /\ pageSetUp = SetUpCompletes(savedLanguages)
    /\ sleepLog = <<>>
    /\ AutoIdle

LangNext ==
    \/ \E selectedLang \in LangOptions : addTargetLanguage(selectedLang)
    \/ \E langCode \in LangOptions : removeTargetLanguage(langCode)
    \/ loadSelectedLanguages
    \/ pageSetUp /\ addFileToQueue

SpecLangs == LangInit /\ [][LangNext]_vars

(***************************************************************************)
(* SpecBackoff: the delays slept by one translateText of the documents API *)
(* (retrying version) whose calls all fail with a retryable failure, for   *)
(* maxRetries = MaxRetriesArg, so that the delay reaches MAX_DELAY.        *)
(* Math.random() is a multiple of 1/100 below 1; a delay is in ms.         *)
(***************************************************************************)
RandomValues == {0, 25, 50, 75, 99}

\* Faulty variant of calculateRetryDelay: the delay is not capped.
calculateRetryDelayUncapped(attempt, random) ==
    LET delay == BASE_DELAY * Pow2(attempt - 1) IN
    delay + (random * 3 * delay) \div 1000

(* delay = BASE_DELAY * 2^(attempt-1); jitter = Math.random() * 0.3 *      *)
(* delay; Math.min(delay + jitter, MAX_DELAY).  random is in hundredths.   *)
calculateRetryDelay(attempt, random) ==
    LET delay == BASE_DELAY * Pow2(attempt - 1)
        jitter == (random * 3 * delay) \div 1000 IN
    Min(delay + jitter, MAX_DELAY)

(* await sleep(calculateRetryDelay(attempt)) after the failed call of      *)
(* attempt, when attempt < maxRetries.                                     *)
RetrySleeps(random) ==
    /\ Len(sleepLog) + 1 < MaxRetriesArg
    /\ sleepLog' = Append(sleepLog, calculateRetryDelay(Len(sleepLog) + 1, random))
    /\ UNCHANGED <<retryVars, docVars, textVars, queueVars, splitVars, langVars, autoVars, authVars>>

BackoffInit ==
    /\ RetryIdle
    /\ DocIdle
    /\ TextIdle
    /\ QueueIdle
    /\ SplitIdle
    /\ LangIdle
    /\ AutoIdle
    /\ isAuthenticated = FALSE

BackoffNext == \E random \in RandomValues : RetrySleeps(random)

SpecBackoff == BackoffInit /\ [][BackoffNext]_vars

(***************************************************************************)
(* splitTextIntoChunks of script.js.  A text is a sequence of characters   *)
(* (one-character strings); indices are those of JavaScript, from 0.       *)
(***************************************************************************)
WhiteSpace == {" ", "\n"}

(* text.substring(start, end) for 0 <= start <= end: end is clamped to the *)
(* length.                                                                 *)
Substring(text, start, end) == SubSeq(text, start + 1, Min(end, Len(text)))

StartsAt(text, sep, k) ==
    /\ k + Len(sep) <= Len(text)
    /\ \A j \in 1..Len(sep) : text[k + j] = sep[j]

Occurrences(text, sep) == {k \in 0..Len(text) : StartsAt(text, sep, k)}

\* Faulty variant of LastIndexOf: the first occurrence instead of the last.
FirstIndexOf(text, sep) ==
    IF Occurrences(text, sep) = {} THEN -1
    ELSE CHOOSE k \in Occurrences(text, sep) : \A j \in Occurrences(text, sep) : k <= j

(* searchText.lastIndexOf(separator)                                       *)
LastIndexOf(text, sep) ==
    IF Occurrences(text, sep) = {} THEN -1
    ELSE CHOOSE k \in Occurrences(text, sep) : \A j \in Occurrences(text, sep) : j <= k

(* String.prototype.trim()                                                 *)
Trim(text) ==
    LET inked == {k \in 1..Len(text) : text[k] \notin WhiteSpace} IN
    IF inked = {} THEN <<>>
    ELSE SubSeq(text, CHOOSE k \in inked : \A j \in inked : k <= j,
                      CHOOSE k \in inked : \A j \in inked : j <= k)

(* The separators in the order of their priority.                          *)
Separators ==
    << <<"\n", "\n">>, <<".", " ">>, <<".", "\n">>, <<"!", " ">>, <<"!", "\n">>,
       <<"?", " ">>, <<"?", "\n">>, <<"\n">>, <<" ">> >>

\* Faulty variant of SearchEnd: the search looks further ahead.
SearchEndFurther(endIndex) == endIndex + 2 * SearchMargin

(* The search window is text.substring(searchStart, endIndex + 50) with    *)
(* searchStart = Math.max(currentIndex, endIndex - 50).                    *)
SearchEnd(endIndex) == endIndex + SearchMargin

\* Faulty variant of SearchStart: the whole window is searched.
SearchStartAtWindowStart(currentIndex, endIndex) == currentIndex

SearchStart(currentIndex, endIndex) ==
    IF currentIndex >= endIndex - SearchMargin THEN currentIndex ELSE endIndex - SearchMargin

\* Faulty variant of BestSeparatorIndex: the separator that ends last in the
\* search window is taken, whatever its priority.
BestSeparatorIndexNearest(searchText, searchStart) ==
    LET ends == {LastIndexOf(searchText, Separators[k]) + Len(Separators[k]) :
                    k \in {j \in 1..Len(Separators) : LastIndexOf(searchText, Separators[j]) # -1}} IN
    IF ends = {} THEN -1
    ELSE searchStart + (CHOOSE e \in ends : \A f \in ends : f <= e)

(* The for loop over the separators: the end of the last occurrence of the *)
(* first separator that occurs in the search window, -1 when none does.    *)
BestSeparatorIndex(searchText, searchStart) ==
    LET found == {k \in 1..Len(Separators) : LastIndexOf(searchText, Separators[k]) # -1} IN
    IF found = {} THEN -1
    ELSE LET k == CHOOSE k \in found : \A j \in found : k <= j IN
         searchStart + LastIndexOf(searchText, Separators[k]) + Len(Separators[k])

(* Where the piece that starts at currentIndex ends.                       *)
EndIndex(text, chunkSize, currentIndex) ==
    LET endIndex == currentIndex + chunkSize
        searchStart == SearchStart(currentIndex, endIndex)
        best == BestSeparatorIndex(Substring(text, searchStart, SearchEnd(endIndex)), searchStart)
    IN
    IF endIndex < Len(text) /\ best # -1 /\ best > currentIndex THEN best ELSE endIndex

\* Faulty variant of NextIndex: the scan resumes one character before the cut.
NextIndexBefore(endIndex) == endIndex - 1

\* Faulty variant of NextIndex: the character at the cut is skipped.
NextIndexSkips(endIndex) == endIndex + 1

(* currentIndex = endIndex                                                 *)
NextIndex(endIndex) == endIndex

(* The while loop: the trimmed pieces, in order.                           *)
RECURSIVE SplitLoop(_, _, _, _)
SplitLoop(text, chunkSize, currentIndex, chunks) ==
    IF currentIndex < Len(text)
    THEN LET endIndex == EndIndex(text, chunkSize, currentIndex) IN
         SplitLoop(text, chunkSize, NextIndex(endIndex),
                   Append(chunks, Trim(Substring(text, currentIndex, endIndex))))
    ELSE chunks

NonEmpty(chunk) == Len(chunk) > 0

splitTextIntoChunks(text, chunkSize) ==
    IF Len(text) <= chunkSize THEN <<text>>
    ELSE SelectSeq(SplitLoop(text, chunkSize, 0, <<>>), NonEmpty)

(***************************************************************************)
(* SpecSplit: one call of splitTextIntoChunks, for every short text over a *)
(* small alphabet, for the text "A. B. C.", and for long texts (two runs   *)
(* of letters around one separator) that reach the edges of the search     *)
(* window.                                                                 *)
(***************************************************************************)
Alphabet == {"A", ".", "!", " ", "\n"}

RECURSIVE TextsOfLength(_)
TextsOfLength(n) ==
    IF n = 0 THEN {<<>>}
    ELSE {Append(t, c) : t \in TextsOfLength(n - 1), c \in Alphabet}

ShortTexts == UNION {TextsOfLength(n) : n \in 0..MaxShortLen}

Letters(n) == [k \in 1..n |-> "A"]

LongRuns == {SearchMargin - 2, SearchMargin - 1, SearchMargin, SearchMargin + 1}
                \cup {8, 9, 10, 11}

LongTextSeparators == {<<" ">>, <<".", " ">>}

TextOfSentences == <<"A", ".", " ", "B", ".", " ", "C", ".">>

SplitInputs ==
    {[text |-> t, chunkSize |-> n] : t \in ShortTexts, n \in 1..MaxShortLimit}
    \cup {[text |-> TextOfSentences, chunkSize |-> n] : n \in 1..8}
    \cup {[text |-> Letters(p) \o sep \o Letters(q), chunkSize |-> n] :
             p \in LongRuns, sep \in LongTextSeparators, q \in {2, SearchMargin + 10},
             n \in {1, 2, SearchMargin + 10}}

SplitInit ==
    /\ RetryIdle
    /\ DocIdle
    /\ TextIdle
    /\ QueueIdle
    /\ LangIdle
    /\ AutoIdle
    /\ isAuthenticated = FALSE
    /\ splitArgs \in SplitInputs
    /\ splitResult = [k |-> "none", chunks |-> <<>>]

SplitReturns ==
    /\ splitResult.k = "none"
    /\ splitResult' = [k |-> "chunks",
                       chunks |-> splitTextIntoChunks(splitArgs.text, splitArgs.chunkSize)]
    /\ UNCHANGED <<splitArgs, retryVars, docVars, textVars, queueVars, langVars, backoffVars, autoVars, authVars>>

SplitNext == SplitReturns

SpecSplit == SplitInit /\ [][SplitNext]_vars

(***************************************************************************)
(* SpecScan: the while loop of splitTextIntoChunks, one iteration a step.  *)
(* splitResult holds the locals of the call: k is "none" before the call,  *)
(* "loop" inside the while loop and "chunks" once it has returned.         *)
(***************************************************************************)
ScanInit ==
    /\ RetryIdle
    /\ DocIdle
    /\ TextIdle
    /\ QueueIdle
    /\ LangIdle
    /\ AutoIdle
    /\ isAuthenticated = FALSE
    /\ splitArgs \in SplitInputs
    /\ splitResult = [k |-> "none", chunks |-> <<>>, currentIndex |-> 0, iterations |-> 0]

(* The call, up to the head of the while loop.                             *)
SplitCalled ==
    /\ splitResult.k = "none"
    /\ splitResult' =
          IF Len(splitArgs.text) <= splitArgs.chunkSize
          THEN [splitResult EXCEPT !.k = "chunks", !.chunks = <<splitArgs.text>>]
          ELSE [splitResult EXCEPT !.k = "loop"]
    /\ UNCHANGED <<splitArgs, retryVars, docVars, textVars, queueVars, langVars, backoffVars, autoVars, authVars>>

(* One iteration of the while loop.  No terminating call makes more        *)
(* iterations than the text has characters; the count stops there.         *)
SplitIterates ==
    /\ splitResult.k = "loop"
    /\ splitResult.currentIndex < Len(splitArgs.text)
    /\ splitResult.iterations <= Len(splitArgs.text)
    /\ LET currentIndex == splitResult.currentIndex
           endIndex == EndIndex(splitArgs.text, splitArgs.chunkSize, currentIndex) IN
       splitResult' =
          [splitResult EXCEPT
             !.chunks = Append(@, Trim(Substring(splitArgs.text, currentIndex, endIndex))),
             !.currentIndex = NextIndex(endIndex),
             !.iterations = @ + 1]
    /\ UNCHANGED <<splitArgs, retryVars, docVars, textVars, queueVars, langVars, backoffVars, autoVars, authVars>>

(* The loop condition fails: return chunks.filter(chunk => chunk.length > 0). *)
SplitLoopEnds ==
    /\ splitResult.k = "loop"
    /\ splitResult.currentIndex >= Len(splitArgs.text)
    /\ splitResult' = [splitResult EXCEPT !.k = "chunks", !.chunks = SelectSeq(@, NonEmpty)]
    /\ UNCHANGED <<splitArgs, retryVars, docVars, textVars, queueVars, langVars, backoffVars, autoVars, authVars>>

ScanNext ==
    \/ SplitCalled
    \/ SplitIterates
    \/ SplitLoopEnds

SpecScan == ScanInit /\ [][ScanNext]_vars

(***************************************************************************)
(* Properties of the document task state machine (SpecDoc).                *)
(***************************************************************************)
Last(seq) == seq[Len(seq)]

Terminal(status) == status \in {"completed", "error"}

StatusPaths ==
    { <<"pending">>, <<"pending", "processing">>,
      <<"pending", "processing", "completed">>, <<"pending", "processing", "error">> }

(* C1: the statuses assigned to a task follow pending -> processing ->     *)
(* completed | error, and a task that is completed or error keeps its      *)
(* status in every later step (requests, sweeps, other tasks' steps).      *)
C1_StatusLifecycle ==
    /\ [](\A t \in TaskIds : statusLog[t] \in StatusPaths /\ task[t].status = Last(statusLog[t]))
    /\ [][\A t \in TaskIds : Terminal(task[t].status) => task'[t].status = task[t].status]_vars

(* What holds of the code: the statuses assigned to a task follow the      *)
(* paths of C1 or, for a request whose file name cannot be converted to a  *)
(* string, go from pending to error at once (processDocumentAsync throws   *)
(* before it assigns processing); a task that is completed or error keeps  *)
(* its status.                                                             *)
StatusLifecycleOfCode ==
    /\ [](\A t \in TaskIds :
            /\ task[t].status = Last(statusLog[t])
            /\ IF EntryThrows(task[t].fileName)
               THEN statusLog[t] = <<"pending", "error">> /\ task[t].progress = Rat(0)
               ELSE statusLog[t] \in StatusPaths)
    /\ [][\A t \in TaskIds : Terminal(task[t].status) => task'[t].status = task[t].status]_vars

(* A task registered with status error and progress 0: its file name       *)
(* cannot be converted to a string.                                        *)
BornInError ==
    \E t \in TaskIds :
        /\ statusLog[t] = <<"pending", "error">>
        /\ task[t].error = ConversionError
        /\ task[t].progress = Rat(0)
        /\ response.code = 200

C1_Witness ==
    /\ Len(task) = MaxTasks
    /\ task[1].status = "completed" /\ Len(task[1].results) >= 1
    /\ task[2].status = "error"
    /\ processingTasks = {2}
    /\ response.code = 404

(* C2, as stated: a task that is completed or error has a result, itself   *)
(* completed or error, for every requested target language.                *)
C2_ResultsForEveryLanguage ==
    \A t \in TaskIds :
        Terminal(task[t].status) =>
            \A i \in 1..Len(task[t].targetLangs) :
                \E j \in 1..Len(task[t].results) :
                    /\ task[t].results[j].langCode = task[t].targetLangs[i]
                    /\ Terminal(task[t].results[j].status)

(* C2, amended: the results of a task are, at every moment, the results of *)
(* the first languages of targetLangs, in that order, each completed or    *)
(* error; a completed task has one for every requested language, while a   *)
(* task that is error has them only for the languages handled before the   *)
(* fault (none, when the extraction failed).                               *)
C2_ResultsWhenCompleted ==
    \A t \in TaskIds :
        /\ Len(task[t].results) <= Len(task[t].targetLangs)
        /\ \A i \in 1..Len(task[t].results) :
              /\ task[t].results[i].langCode = task[t].targetLangs[i]
              /\ Terminal(task[t].results[i].status)
        /\ task[t].status = "completed" => Len(task[t].results) = Len(task[t].targetLangs)
        /\ task[t].status = "error" /\ proc[t].i = 0 =>
              task[t].results = <<>>

C2_Witness ==
    \E t \in TaskIds :
        /\ task[t].status = "completed"
        /\ Len(task[t].targetLangs) = MaxLangs
        /\ \E i, j \in 1..MaxLangs :
              task[t].results[i].status = "error" /\ task[t].results[j].status = "completed"

(* C3, as stated: the values assigned to task.progress lie in 0..100 and   *)
(* never decrease, for every number of target languages, and the progress  *)
(* of a completed task is 100.                                             *)
C3_ProgressMonotone ==
    \A t \in TaskIds :
        LET log == progressLog[t] IN
        /\ \A i \in 1..Len(log) : RatLeq(Rat(0), log[i]) /\ RatLeq(log[i], Rat(100))
        /\ \A i \in 1..(Len(log) - 1) : RatLeq(log[i], log[i + 1])
        /\ task[t].progress = Last(log)
        /\ task[t].status = "completed" => RatEq(task[t].progress, Rat(100))

(* The value assigned after the last language in the retrying version,     *)
(* when the rounding of 80 / totalLangs makes it exceed 100.               *)
Overshoot(n) == <<100 * n, n, 1>>

(* C3, amended: the progress a task shows between two steps of its         *)
(* processing lies in 0..100, never decreases from one step to the next,   *)
(* and is 100 when the task is completed.  The values assigned lie in      *)
(* 0..100 and never decrease either, but for one: in the retrying version  *)
(* the value assigned after the last language may be 100 + 2^-46 (it is,   *)
(* for 147 target languages); it is replaced by 100 before the task is     *)
(* seen.                                                                   *)
C3_ObservedProgress ==
    /\ [](\A t \in TaskIds :
            LET log == progressLog[t]
                n == Len(task[t].targetLangs) IN
            /\ RatLeq(Rat(0), task[t].progress) /\ RatLeq(task[t].progress, Rat(100))
            /\ task[t].progress = Last(log)
            /\ task[t].status = "completed" => RatEq(task[t].progress, Rat(100))
            /\ \A i \in 1..Len(log) :
                  /\ RatLeq(Rat(0), log[i])
                  /\ RatLeq(log[i], Rat(100)) \/
                        (apiVersion = "retry" /\ i = Len(log) - 1 /\ log[i] = Overshoot(n))
            /\ \A i \in 1..(Len(log) - 1) :
                  RatLeq(log[i], log[i + 1]) \/
                        (apiVersion = "retry" /\ i = Len(log) - 1 /\ log[i] = Overshoot(n)))
    /\ [][\A t \in TaskIds : RatLeq(task[t].progress, task'[t].progress)]_vars

(* A completed task of the retrying version with MaxTotalLangs languages,  *)
(* whose progress went above 100 and back to 100.                          *)
C3_Witness ==
    \E t \in TaskIds :
        /\ apiVersion = "retry"
        /\ task[t].status = "completed"
        /\ Len(task[t].targetLangs) = MaxTotalLangs
        /\ Len(progressLog[t]) = MaxTotalLangs + 4
        /\ progressLog[t][MaxTotalLangs + 3] = Overshoot(MaxTotalLangs)
        /\ task[t].progress = Rat(100)

(* The languages of task t, by position, for which the client fails every  *)
(* call / fails no call / for which createTranslatedDocument failed.       *)
ClientFailedAt(t) == {i \in 1..Len(proc[t].hist) : proc[t].hist[i].clientFails = MAX_RETRIES}
ClientCleanAt(t) == {i \in 1..Len(proc[t].hist) : proc[t].hist[i].clientFails = 0}
MaterializeFailedAt(t) == {i \in 1..Len(proc[t].hist) : proc[t].hist[i].materializeFailed}

(* C4, as stated: with three target languages, the client failing          *)
(* permanently for exactly one of them (and nothing else failing), the     *)
(* task is completed with that language's result error, carrying the       *)
(* message, and the two others completed.                                  *)
C4_FailedLanguageIsError ==
    \A t \in TaskIds :
        ( /\ proc[t].pc = "done" /\ Len(proc[t].hist) = 3
          /\ Cardinality(ClientFailedAt(t)) = 1 /\ Cardinality(ClientCleanAt(t)) = 2
          /\ MaterializeFailedAt(t) = {} )
        => /\ task[t].status = "completed"
           /\ \A i \in 1..3 :
                 IF i \in ClientFailedAt(t)
                 THEN task[t].results[i].status = "error" /\ task[t].results[i].error # ""
                 ELSE task[t].results[i].status = "completed"

(* C4, amended: in that case the task is completed with three results and  *)
(* the two other languages completed; api/documents.js records the failing *)
(* language as error with the message, while the retrying version records  *)
(* it as completed with the demo text of that language (translateText      *)
(* falls back instead of raising).                                         *)
C4_FailedLanguageIsolated ==
    \A t \in TaskIds :
        ( /\ proc[t].pc = "done" /\ Len(proc[t].hist) = 3
          /\ Cardinality(ClientFailedAt(t)) = 1 /\ Cardinality(ClientCleanAt(t)) = 2
          /\ MaterializeFailedAt(t) = {} )
        => /\ task[t].status = "completed"
           /\ Len(task[t].results) = 3
           /\ \A i \in 1..3 :
                 LET r == task[t].results[i] IN
                 IF i \notin ClientFailedAt(t)
                 THEN r.status = "completed" /\ r.translatedText.k = "api"
                 ELSE IF apiVersion = "basic"
                 THEN r.status = "error" /\ r.error = "HTTP 503: Service Unavailable - body"
                 ELSE /\ r.status = "completed"
                      /\ r.translatedText = generateDemoTranslatedContent(r.langCode)

C4_Witness ==
    \E t \in TaskIds :
        /\ proc[t].pc = "done" /\ Len(proc[t].hist) = 3
        /\ ClientFailedAt(t) = {1} /\ ClientCleanAt(t) = {2, 3} /\ MaterializeFailedAt(t) = {}
        /\ apiVersion = "basic"
        /\ task[t].results[1].status = "error"
        /\ task[t].results[3].status = "completed"

(* What holds of the code: the status becomes error only in the outer      *)
(* catch, reached when the first statement of processDocumentAsync throws  *)
(* on the file name (the task is registered in error), when the extraction *)
(* rejects, or when the head of a loop iteration throws on a language code *)
(* that cannot be converted to a string; a failure of the client or of     *)
(* createTranslatedDocument for a language never sets it, and a task whose *)
(* language codes are all printable is completed, with a result per        *)
(* language, once its processing has ended after such failures.            *)
ErrorOnlyByOuterCatch ==
    /\ [](\A t \in TaskIds :
            statusLog[t] = <<"pending", "error">>
                => EntryThrows(task[t].fileName) /\ task[t].results = <<>>)
    /\ [][\A t \in TaskIds :
            (task'[t].status = "error" /\ task[t].status # "error")
                => \/ proc[t].pc = "extract" /\ task[t].results = <<>>
                   \/ /\ LoopHeadThrows(task[t].targetLangs, proc[t].i + 1)
                      /\ task'[t].error = ConversionError
                      /\ Len(task'[t].results) = proc[t].i]_vars
    /\ [](\A t \in TaskIds :
            ( /\ ClientFailedAt(t) \cup MaterializeFailedAt(t) # {}
              /\ \A i \in 1..Len(task[t].targetLangs) : task[t].targetLangs[i] # UnprintableLang )
                => /\ task[t].status = IF proc[t].pc = "done" THEN "completed" ELSE "processing"
                   /\ (proc[t].pc = "done" => Len(task[t].results) = Len(task[t].targetLangs)))

(* C5: a task's status becomes error only when the extraction fails,       *)
(* before the language loop; a failure while translating or materialising  *)
(* a language leaves the status processing, and the task is completed once *)
(* its processing has ended.                                               *)
C5_ErrorOnlyOutsideLoop ==
    /\ [][\A t \in TaskIds :
            (task'[t].status = "error" /\ task[t].status # "error")
                => (proc[t].pc = "extract" /\ task[t].results = <<>>)]_vars
    /\ [](\A t \in TaskIds :
            (ClientFailedAt(t) \cup MaterializeFailedAt(t) # {})
                => /\ task[t].status = IF proc[t].pc = "done" THEN "completed" ELSE "processing"
                   /\ (proc[t].pc = "done" => Len(task[t].results) = Len(task[t].targetLangs)))

C5_Witness ==
    \E t \in TaskIds :
        /\ task[t].status = "completed" /\ apiVersion = "retry"
        /\ Len(task[t].results) = 2
        /\ MaterializeFailedAt(t) = {1, 2} /\ ClientFailedAt(t) = {2}
        /\ task[t].results[1].status = "error"
        /\ task[t].results[2].note

(***************************************************************************)
(* Properties of the retrying translators (SpecRetry).                     *)
(***************************************************************************)
RetryableFailure(o) ==
    \/ o.t = "http" /\ shouldRetry(o.status)
    \/ o.t \in {"http", "throw"} /\ shouldRetryError(FailureMessage("translateText", o))

AllOuts(P(_)) == \A i \in 1..Len(unitOuts) : P(unitOuts[i])

IsFailure(o) == o.t # "ok"

(* call, sleep, call, ..., call: n calls with a sleep between each two.    *)
Alternating(n) == [i \in 1..(2 * n - 1) |-> IF i % 2 = 1 THEN "call" ELSE "sleep"]


(* A string that can stand for a translation: a translation or a           *)
(* demonstration text.                                                     *)
IsString(text) == text.k \in {"api", "demo"}

(* C6: the retrying translator never raises: for every language pair and   *)
(* maxRetries, when every call of the Translation Client has failed, it    *)
(* ends by returning a non-empty fallback string for the target language.  *)
C6_NeverRaises ==
    (UnitDone(unit) /\ AllOuts(IsFailure)) => (unit.pc = "returned" /\ IsString(unit.text))

(* What the translators do when every call of the client has failed.      *)
(* translateText of the documents API rejects before its first call when   *)
(* the source language cannot be converted to a string; otherwise it       *)
(* returns the demo text of the target language, the English one for a     *)
(* language without demo text, and for a language code that names a        *)
(* property inherited from Object.prototype that property, which is no     *)
(* text.  translateChunk of the client raises once its maxRetries-th call  *)
(* has failed (and returns no text when maxRetries is 0).                  *)
FallbackOrThrow ==
    (UnitDone(unit) /\ AllOuts(IsFailure)) =>
        IF unit.kind = "translateText"
        THEN IF UnitEntryThrows(unit.kind, unit.source, unit.lang)
             THEN unit.pc = "thrown" /\ unit.calls = 0 /\ unit.err = ConversionError
             ELSE /\ unit.pc = "returned"
                  /\ IF unit.lang \in InheritedKeys
                     THEN unit.text.k = "object"
                     ELSE /\ unit.text.k = "demo"
                          /\ unit.text.lang = IF unit.lang \in DemoLangs THEN unit.lang ELSE "EN"
                  /\ unit.calls <= unit.max
        ELSE IF unit.max >= 1
        THEN unit.pc = "thrown" /\ unit.calls = unit.max
        ELSE unit.pc = "returned" /\ IsEmptyText(unit.text)

(* C7: if the client fails with a retryable error on attempts 1..k-1 and   *)
(* succeeds on attempt k <= maxRetries, the translator returns the text of *)
(* call k after exactly k calls and k-1 sleeps, one sleep between each two *)
(* consecutive calls; while only retryable failures have been seen and     *)
(* attempts remain, the translator is still running.                       *)
C7_RetryThenSuccess ==
    LET n == Len(unitOuts) IN
    /\ (n >= 1 /\ n <= unit.max /\ unitOuts[n].t = "ok"
          /\ \A i \in 1..(n - 1) : RetryableFailure(unitOuts[i]))
       => /\ unit.pc = "returned"
          /\ unit.text = ApiText(unit.lang, unit.of, n)
          /\ unit.calls = n
          /\ unit.sleeps = n - 1
          /\ unitLog = Alternating(n)
    /\ (n >= 1 /\ n < unit.max /\ AllOuts(RetryableFailure))
       => /\ unit.pc \in {"sleeping", "inflight"}
          /\ unit.sleeps = n
          /\ unit.calls = IF unit.pc = "sleeping" THEN n ELSE n + 1

C7_Witness ==
    /\ Len(unitOuts) = MaxAttempts /\ unit.max = MaxAttempts
    /\ unitOuts[MaxAttempts].t = "ok"
    /\ \A i \in 1..(MaxAttempts - 1) : unitOuts[i].t = "http" /\ unitOuts[i].status = 503
    /\ unit.pc = "returned" /\ unit.sleeps = MaxAttempts - 1

(* The i-th client call failed and a backoff sleep followed it.            *)
SleptAfter(i) == i <= Len(unitOuts) /\ unitOuts[i].t # "ok" /\ unit.sleeps >= i

(* C8, as stated: in translateText a failed attempt is followed by a sleep *)
(* only if the failure is retryable and attempts remain; any other failure *)
(* (other status, malformed or non-success payload) ends the loop at once. *)
C8_OnlyRetryableRetried ==
    unit.kind = "translateText" =>
        \A i \in 1..Len(unitOuts) :
            /\ SleptAfter(i) => (RetryableFailure(unitOuts[i]) /\ i < unit.max)
            /\ (IsFailure(unitOuts[i]) /\ ~RetryableFailure(unitOuts[i]))
                  => (i = Len(unitOuts) /\ UnitDone(unit))

(* C8, amended: in translateText a failed attempt is followed by a sleep   *)
(* and another attempt exactly when attempts remain and the failure is     *)
(* either retryable or a non-success response payload (which the code      *)
(* retries too); a non-retryable HTTP status or thrown error (a malformed  *)
(* body included) ends the loop at once, without sleep or further call.    *)
C8_RetriedFailures ==
    unit.kind = "translateText" =>
        \A i \in 1..Len(unitOuts) :
            LET o == unitOuts[i]
                retried == RetryableFailure(o) \/ o.t = "payload" IN
            /\ SleptAfter(i) => (retried /\ i < unit.max)
            /\ (IsFailure(o) /\ retried /\ i < unit.max) => SleptAfter(i)
            /\ (IsFailure(o) /\ ~(retried /\ i < unit.max))
                  => /\ i = Len(unitOuts)
                     /\ unit.pc = "returned"
                     /\ unit.calls = i /\ unit.sleeps = i - 1

C8_Witness ==
    /\ unit.kind = "translateText" /\ unit.max = MaxAttempts
    /\ Len(unitOuts) = 2
    /\ unitOuts[1].t = "payload"
    /\ unitOuts[2].t = "http" /\ unitOuts[2].status = 404
    /\ unitOuts[2].statusText = "Not Found"
    /\ unit.pc = "returned" /\ unit.sleeps = 1

(***************************************************************************)
(* Properties of the client's multi-chunk translation (SpecText).          *)
(***************************************************************************)

ChunkCalls(p, c) == chunkLog[p][c].batchCalls + chunkLog[p][c].retryCalls
ChunkSleeps(p, c) == chunkLog[p][c].batchSleeps + chunkLog[p][c].retrySleeps

(* The event (key press or timer) whose call of translateText started the  *)
(* run of script p; 0 when the script has started none.                    *)
EventOf(p) ==
    LET own == {k \in DOMAIN requests :
                   /\ requests[k].script = p
                   /\ requests[k].id # 0
                   /\ requests[k].id = run[p].thisTranslationId}
    IN IF own = {} THEN 0 ELSE requests[CHOOSE k \in own : TRUE].ev

(* The runs of the two scripts were started by the same event.             *)
SameRequest == EventOf(1) # 0 /\ EventOf(1) = EventOf(2)

\* C9 (as stated): within one translation run the Translation Client is
\* called at most maxAttempts times for each chunk, and at most
\* maxAttempts - 1 backoff sleeps occur for it, whatever the outcomes of its
\* calls and of the other chunks of its window.
C9_CallsPerChunk ==
    \A p \in Scripts : \A c \in DOMAIN chunkLog[p] :
        /\ ChunkCalls(p, c) <= ChunkRetries
        /\ ChunkSleeps(p, c) <= ChunkRetries - 1

\* C9 (amended): every invocation of the retrying translator calls the
\* client at most maxAttempts times and sleeps at most maxAttempts - 1
\* times; a run gives a chunk a second invocation only when a call of its
\* window has thrown, so a chunk sees at most 2 * maxAttempts calls and
\* 2 * (maxAttempts - 1) sleeps in a run, and at most maxAttempts calls when
\* no window of the run has rejected; the runs that the two page scripts
\* start for one request call the client at most 4 * maxAttempts times for
\* a chunk between them.
C9_CallsPerInvocation ==
    /\ \A p \in Scripts :
          /\ \A c \in DOMAIN chunkLog[p] :
                /\ chunkLog[p][c].batchCalls <= ChunkRetries
                /\ chunkLog[p][c].retryCalls <= ChunkRetries
                /\ chunkLog[p][c].batchSleeps <= ChunkRetries - 1
                /\ chunkLog[p][c].retrySleeps <= ChunkRetries - 1
                /\ ChunkCalls(p, c) <= 2 * ChunkRetries
                /\ ChunkSleeps(p, c) <= 2 * (ChunkRetries - 1)
                /\ chunkLog[p][c].retryCalls > 0 =>
                      run[p].totalErrors >= 1 /\ chunkLog[p][c].batchCalls >= 1
                /\ run[p].totalErrors = 0 => ChunkCalls(p, c) <= ChunkRetries
          /\ \A c \in DOMAIN batchPromises[p] : batchPromises[p][c].calls <= ChunkRetries
          /\ run[p].retry.calls <= ChunkRetries
    /\ SameRequest =>
          \A c \in DOMAIN chunkLog[1] : ChunkCalls(1, c) + ChunkCalls(2, c) <= 4 * ChunkRetries

\* A finished run of the second script in which some chunk was called
\* 2 * maxAttempts times (its window call failed maxAttempts times and so did
\* its individual call), while the run that the first script started for
\* the same request has called the client for that chunk as well.
C9_Witness ==
    /\ run[2].pc = "done"
    /\ run[2].totalChunks >= 2
    /\ SameRequest
    /\ \E c \in DOMAIN chunkLog[2] :
          /\ chunkLog[2][c].batchCalls = ChunkRetries
          /\ chunkLog[2][c].retryCalls = ChunkRetries
          /\ chunkLog[2][c].retrySleeps = ChunkRetries - 1
          /\ run[2].translatedChunks[c] = ErrorText(c)
          /\ ChunkCalls(1, c) >= 1

(* The output field as a click or an empty input left it: cleared by a     *)
(* call of translateText for an empty text, or holding the translation     *)
(* that a history item put into it.                                        *)
WrittenByUser(out) == out = <<>> \/ out = HistoryPiece

(* Piece k is the translation, or the error text, of chunk k.              *)
InChunkOrder(pieces) ==
    \A k \in 1..Len(pieces) : pieces[k].of = k /\ pieces[k].k \in {"api", "mark"}

(* The run of script p is the one that wrote the output field last.        *)
WroteLast(p) ==
    run[p].pc # "idle" /\ outputBy = [script |-> p, id |-> run[p].thisTranslationId]

\* C10: at every moment of a run, of either script, the i-th element of
\* the sequence of translated chunks is the translation, or the error text,
\* of the i-th chunk, whatever the order in which the calls of a window
\* settle and whether or not some of them fail; a finished run has one
\* element per chunk; and what a run has joined into the output field is
\* that sequence (the output is otherwise empty or the text of a history
\* item).
C10_OrderPreserved ==
    /\ \A p \in Scripts :
          /\ InChunkOrder(run[p].translatedChunks)
          /\ Len(run[p].translatedChunks) = run[p].completedChunks
          /\ run[p].pc = "done" /\ run[p].totalChunks >= 2 =>
                Len(run[p].translatedChunks) = run[p].totalChunks
          /\ WroteLast(p) /\ run[p].totalChunks >= 2 => outputText = run[p].translatedChunks
    /\ IF outputBy = NoWriter THEN WrittenByUser(outputText) ELSE InChunkOrder(outputText)

\* A finished run of the second script over MaxChunks chunks whose first
\* window resolved although its last call was answered first (it needed no
\* retry, the first call of the window did), whose later window rejected,
\* and which wrote the output last, while the first script ran as well.
C10_Witness ==
    /\ run[2].pc = "done"
    /\ run[2].totalChunks = MaxChunks
    /\ parallelChunks >= 2
    /\ run[2].translatedChunks[1].k = "api" /\ run[2].translatedChunks[1].n >= 2
    /\ run[2].translatedChunks[2].k = "api" /\ run[2].translatedChunks[2].n = 1
    /\ chunkLog[2][MaxChunks].retryCalls >= 1
    /\ WroteLast(2)
    /\ outputText = run[2].translatedChunks
    /\ run[1].pc # "idle"

(***************************************************************************)
(* Properties of the window loop under failures (SpecWindow).              *)
(***************************************************************************)
(* The fetches of the text translation of script p that are in flight.     *)
InFlightCalls(p) ==
    Cardinality({c \in DOMAIN batchPromises[p] : batchPromises[p][c].pc = "inflight"})
    + (IF run[p].retry.pc = "inflight" THEN 1 ELSE 0)

(* The calls started by a window of script p that have not settled yet.    *)
LiveWindowCalls(p) ==
    {c \in DOMAIN batchPromises[p] : batchPromises[p][c].pc \in {"inflight", "sleeping"}}

(* The fetches in flight of one text translation are no more than          *)
(* CONFIG.PARALLEL_CHUNKS.                                                 *)
InFlightBound == \A p \in Scripts : InFlightCalls(p) <= parallelChunks

(* C11: windows run strictly in sequence: while a window is awaited, every *)
(* call that has not settled belongs to that window, and at every moment   *)
(* the fetches in flight of one text translation are at most the           *)
(* concurrency setting.                                                    *)
C11_WindowsInSequence ==
    /\ \A p \in Scripts :
          run[p].pc = "window"
              => LiveWindowCalls(p) \subseteq BatchOf(run[p].i, run[p].totalChunks, parallelChunks)
    /\ InFlightBound

(***************************************************************************)
(* Properties of a translation requested while another runs (SpecRequests).*)
(***************************************************************************)
(* A run of script p is past the guard and has not left translateText.     *)
RunActive(p) == run[p].pc \in {"single", "window", "individual"}

(* Everything the page has started has resolved.                           *)
Resolved ==
    \A p \in Scripts :
        /\ ~isTranslating[p]
        /\ run[p].pc \in {"idle", "done", "failed"}
        /\ LiveWindowCalls(p) = {}

(* Translations have finished and the output is what a run wrote (it has   *)
(* not been cleared or overwritten since by a call with an empty text or a *)
(* history item).                                                          *)
Finished == Resolved /\ outputBy # NoWriter /\ outputText # <<>>

(* The calls of translateText made while a translation was in flight.      *)
BusyRequests == {b \in DOMAIN requests : requests[b].busy}

(* The output was written by a run that the event of call b started.       *)
OutputIsOf(b) ==
    \E a \in DOMAIN requests :
        /\ requests[a].ev = requests[b].ev
        /\ requests[a].id # 0
        /\ outputBy = [script |-> requests[a].script, id |-> requests[a].id]

(* C12: when translation B is requested while translation A is in flight   *)
(* and both have resolved, the output that remains is B's translation.     *)
C12_SupersededDiscarded == \A b \in BusyRequests : Finished => OutputIsOf(b)

(* What the code does with a request made while a translation of the same  *)
(* script is in flight: the guard comes before the increment of the        *)
(* generation, so the request is refused and takes no generation; the      *)
(* generation of a script never changes during its run, its checks of the  *)
(* generation never fail and no run is abandoned.                          *)
BusyRequestRefused ==
    /\ \A b \in DOMAIN requests : requests[b].busy <=> requests[b].id = 0
    /\ \A p \in Scripts :
          /\ run[p].pc # "abandoned"
          /\ run[p].pc # "idle" => run[p].thisTranslationId = currentTranslationId[p]

(* B was refused by both scripts while their runs for A were in flight,    *)
(* and the runs for A have finished: the output is A's.                    *)
RefusedWhileBusy ==
    /\ Finished
    /\ Len(requests) = 4
    /\ requests[3].busy /\ requests[4].busy
    /\ ~OutputIsOf(4)

(***************************************************************************)
(* Properties of the document queue (SpecQueue).                           *)
(***************************************************************************)
(* The items of the queue whose status is processing.                      *)
ProcessingInQueue ==
    {id \in DOMAIN queueItem : queueItem[id].status = "processing" /\ IndexOf(documentQueue, id) # 0}

(* C13: at every moment at most one item of the document queue has status  *)
(* processing, whatever the order of start, pause, clear, add-file and     *)
(* completion events.                                                      *)
C13_OneProcessing == Cardinality(ProcessingInQueue) <= 1

(* C14: after pause is requested, a run that was under way starts no       *)
(* further item of the queue (the item it is processing is left to reach   *)
(* completed or error).                                                    *)
C14_PausedRunStartsNothing ==
    [][\A r \in pausedRuns : batchRun'[r].pos = batchRun[r].pos]_vars

(* C14, for as long as the start button is not clicked again: while        *)
(* isProcessingBatch is false no run goes on to another item, and a pause  *)
(* leaves the items and the runs as they are.                              *)
C14_NothingStartsWhilePaused ==
    [][/\ ~isProcessingBatch =>
            \A r \in DOMAIN batchRun : batchRun'[r].pos = batchRun[r].pos
       /\ (isProcessingBatch /\ ~isProcessingBatch' /\ pausedRuns' # pausedRuns) =>
            (queueItem' = queueItem /\ batchRun' = batchRun /\ checkInterval' = checkInterval)]_vars

(* The step is a click on the clear button that empties the queue.         *)
QueueCleared ==
    /\ documentQueue # <<>>
    /\ documentQueue' = <<>>
    /\ completedDocuments' = completedDocuments

(* C15: while a batch is running, the queue is never emptied by clear.     *)
C15_NoClearWhileRunning == [][isProcessingBatch => ~QueueCleared]_vars

(***************************************************************************)
(* Properties of splitTextIntoChunks (SpecSplit).                          *)
(***************************************************************************)
SplitDone == splitResult.k = "chunks"

ChunkIndexes == 1..Len(splitResult.chunks)

(* A chunk that holds no separator has no place where it could be cut.     *)
Unbreakable(chunk) == \A k \in 1..Len(Separators) : Occurrences(chunk, Separators[k]) = {}

(* C16: every chunk of split(text, limit) is at most limit long, except a  *)
(* chunk that is one unit with no place to cut it.                         *)
C16_ChunkBound ==
    SplitDone =>
        \A i \in ChunkIndexes :
            Len(splitResult.chunks[i]) <= splitArgs.chunkSize \/ Unbreakable(splitResult.chunks[i])

(* C16 as the code has it: the cut may fall up to 50 characters after the  *)
(* limit, so a chunk is at most limit + 49 long (limit + 50 before it is   *)
(* trimmed of the separator's white space); a text without white space     *)
(* holds no separator and all its chunks are at most limit long.           *)
C16_ChunkBoundWithMargin ==
    SplitDone =>
        /\ \A i \in ChunkIndexes :
              Len(splitResult.chunks[i]) <= splitArgs.chunkSize + SearchMargin - 1
        /\ (\A k \in 1..Len(splitArgs.text) : splitArgs.text[k] \notin WhiteSpace) =>
              \A i \in ChunkIndexes : Len(splitResult.chunks[i]) <= splitArgs.chunkSize

(* A chunk as long as the margin allows, in a text that was cut.           *)
C16_Witness ==
    /\ SplitDone
    /\ Len(splitResult.chunks) >= 2
    /\ \E i \in ChunkIndexes :
          Len(splitResult.chunks[i]) = splitArgs.chunkSize + SearchMargin - 1

RECURSIVE Flatten(_)
Flatten(chunks) == IF chunks = <<>> THEN <<>> ELSE Head(chunks) \o Flatten(Tail(chunks))

IsInk(c) == c \notin WhiteSpace

(* The text with all white space deleted.                                  *)
Ink(text) == SelectSeq(text, IsInk)

(* C17: the chunks are consecutive pieces of the text, in order, that lose *)
(* nothing but white space: the chunks joined, white space deleted, are    *)
(* the text with white space deleted.                                      *)
C17_Reconstruction == SplitDone => Ink(Flatten(splitResult.chunks)) = Ink(splitArgs.text)

(* A text cut into three or more chunks, with white space lost at the cuts *)
(* and ink on both sides.                                                  *)
C17_Witness ==
    /\ SplitDone
    /\ Len(splitResult.chunks) >= 3
    /\ Len(Flatten(splitResult.chunks)) < Len(splitArgs.text)
    /\ Len(Ink(splitArgs.text)) >= 3

SentencesCall == splitArgs = [text |-> TextOfSentences, chunkSize |-> 4]

(* C18: split("A. B. C.", 4) is ["A.", "B.", "C."].                        *)
C18_ThreeSentences ==
    (SplitDone /\ SentencesCall) =>
        splitResult.chunks = << <<"A", ".">>, <<"B", ".">>, <<"C", ".">> >>

(* C18 as the code has it: split("A. B. C.", 4) is ["A. B.", "C."]: the    *)
(* one cut falls after the last ". " of the search window, which reaches   *)
(* 50 characters past the limit.                                           *)
C18_TwoChunks ==
    (SplitDone /\ SentencesCall) =>
        /\ splitResult.chunks = << <<"A", ".", " ", "B", ".">>, <<"C", ".">> >>
        /\ EndIndex(splitArgs.text, splitArgs.chunkSize, 0) = 6
        /\ StartsAt(splitArgs.text, <<".", " ">>, 4)

C18_Witness == SplitDone /\ SentencesCall /\ Len(splitResult.chunks) = 2

(***************************************************************************)
(* Authentication gate.                                                    *)
(***************************************************************************)
(* The text translations that were started (not refused, not empty).       *)
StartedRequests == {b \in DOMAIN requests : requests[b].id # 0}

(* The jobs of the browser: text translations and batch runs.              *)
ClientJobStarted == StartedRequests # {} \/ batchRun # <<>>

(* The jobs of the documents API: the processing tasks.                    *)
ServerJobStarted == task # <<>>

(* C19: a text translation, a document batch run or a server-side          *)
(* document processing task is started only for a caller the               *)
(* authentication gate reports as allowed.                                 *)
C19_JobsNeedAuth == (ClientJobStarted \/ ServerJobStarted) => isAuthenticated

(* The gates that the browser has: translateText of the second page script *)
(* and startBatchProcessing start nothing before the gate allows the user  *)
(* (translateText of the first page script asks no gate).                  *)
GatedJobsNeedAuth ==
    (batchRun # <<>> \/ \E b \in StartedRequests : requests[b].script = 2) => isAuthenticated

(***************************************************************************)
(* Validation of the process request.                                      *)
(***************************************************************************)
(* A request without fileId, or whose targetLangs is missing or no list.   *)
Malformed(body) == body.fileId = "" \/ body.langsKind \in {"missing", "string"}

(* C20: a process request with a missing fileId, or with targetLangs       *)
(* missing or not a list, is answered with an error at once and creates   *)
(* no task: the registry and the tasks are unchanged and no processing is  *)
(* started.                                                                *)
C20_InvalidRequestRejected ==
    [][\A body \in ProcessBodies :
          (Malformed(body) /\ handleDocumentProcessing(body)) =>
              /\ response' = [code |-> 400]
              /\ UNCHANGED <<processingTasks, task, proc, progressLog, statusLog>>]_vars

(* An invalid process request was refused while a task was registered and  *)
(* running: the task is still there, and still running.                    *)
C20_Witness ==
    /\ response = [code |-> 400]
    /\ Len(task) = 1
    /\ processingTasks = {1}
    /\ proc[1].pc = "translate"

(***************************************************************************)
(* Status and download requests.                                           *)
(***************************************************************************)
(* The task is unknown to the registry, or holds no completed result for   *)
(* the language.                                                           *)
NothingToDownload(taskId, langCode) ==
    \/ taskId \notin processingTasks
    \/ ~\E j \in 1..Len(task[taskId].results) :
            /\ task[taskId].results[j].langCode = langCode
            /\ task[taskId].results[j].status = "completed"

(* C21: a status request for an unknown task id, and a download request    *)
(* for an unknown task id or for a language without a completed result in  *)
(* the task, is answered with 404; status and download requests change     *)
(* neither the registry nor any task.                                      *)
C21_NotFoundAndReadOnly ==
    [][/\ \A taskId \in 1..MaxTasks :
             handleTaskStatus(taskId) =>
                 /\ taskId \notin processingTasks => response'.code = 404
                 /\ UNCHANGED <<processingTasks, task, proc, progressLog, statusLog>>
       /\ \A taskId \in 1..MaxTasks, langCode \in LangCodes :
             handleDownload(taskId, langCode) =>
                 /\ NothingToDownload(taskId, langCode) => response'.code = 404
                 /\ UNCHANGED <<processingTasks, task, proc, progressLog, statusLog>>]_vars

(* A request was answered with 404 while the registry held a task whose    *)
(* results are all in error (nothing to download), and a task had left the *)
(* registry (its id is unknown now).                                       *)
C21_Witness ==
    /\ response.code = 404
    /\ Len(task) = MaxTasks
    /\ 1 \notin processingTasks
    /\ 2 \in processingTasks
    /\ task[2].results # <<>>
    /\ \A j \in 1..Len(task[2].results) : task[2].results[j].status = "error"

(***************************************************************************)
(* The fallback note.                                                      *)
(***************************************************************************)
(* The result carries a demonstration text, not a translation.             *)
IsFallback(result) == result.status = "completed" /\ result.translatedText.k = "demo"

(* C22: in a completed task every result that carries the fallback text    *)
(* instead of a real translation also carries the note that marks it.      *)
C22_FallbackCarriesNote ==
    \A t \in TaskIds :
        task[t].status = "completed" =>
            \A j \in 1..Len(task[t].results) :
                IsFallback(task[t].results[j]) => task[t].results[j].note

(***************************************************************************)
(* Failure of the document materialisation.                                *)
(***************************************************************************)
(* The languages of task t, by position, whose translation succeeded and   *)
(* whose createTranslatedDocument then failed.                             *)
MaterializeOnlyFailedAt(t) ==
    {i \in MaterializeFailedAt(t) :
        /\ ~proc[t].hist[i].rejected
        /\ proc[t].hist[i].clientFails < (IF apiVersion = "retry" THEN MAX_RETRIES ELSE 1)}

(* A materialisation failure does not fail the task: it stays processing,  *)
(* goes on to the remaining languages and is completed with a result for   *)
(* every language.                                                         *)
NotJobFatal(t) ==
    /\ task[t].status = IF proc[t].pc = "done" THEN "completed" ELSE "processing"
    /\ Len(task[t].results) = Len(proc[t].hist)
    /\ proc[t].pc = "done" => Len(task[t].results) = Len(task[t].targetLangs)

(* C23: when createTranslatedDocument fails for a language whose           *)
(* translation succeeded, that language's result has status error, and the *)
(* task is not failed: the remaining languages are processed and the task  *)
(* is completed.                                                           *)
C23_MaterializeFailureIsError ==
    \A t \in TaskIds :
        MaterializeOnlyFailedAt(t) # {} =>
            /\ NotJobFatal(t)
            /\ \A i \in MaterializeOnlyFailedAt(t) : task[t].results[i].status = "error"

(* What the two versions do: api/documents.js records the language as     *)
(* error.  The retrying version drops the translation and materialises the *)
(* demonstration text of the language instead: the result is completed     *)
(* with that text and the note when this succeeds, and error when it fails *)
(* too.  In both versions the task is not failed by it (a task fails      *)
(* later when the head of an iteration throws on a language code that      *)
(* cannot be converted to a string).                                       *)
MaterializeFailureIsolated ==
    \A t \in TaskIds :
        MaterializeOnlyFailedAt(t) # {} =>
            /\ (\A i \in 1..Len(task[t].targetLangs) : task[t].targetLangs[i] # UnprintableLang)
                  => NotJobFatal(t)
            /\ \A i \in MaterializeOnlyFailedAt(t) :
                  LET r == task[t].results[i] IN
                  IF apiVersion = "basic"
                  THEN r.status = "error" /\ r.error = "createTranslatedDocument failed"
                  ELSE \/ /\ r.status = "completed"
                          /\ r.translatedText = generateDemoTranslatedContent(r.langCode)
                          /\ r.note
                       \/ /\ r.status = "error"
                          /\ r.error = "createTranslatedDocument failed. fallback: createTranslatedDocument failed"

(***************************************************************************)
(* Target languages are a set.                                             *)
(***************************************************************************)
NoDuplicates(list) == \A i, j \in 1..Len(list) : list[i] = list[j] => i = j

(* The lists of the browser: the selection (when it is a list) and the     *)
(* copies in the queue.                                                    *)
ClientListsUnique ==
    /\ pageSetUp => NoDuplicates(selectedTargetLanguages)
    /\ \A q \in 1..Len(queueItem) : NoDuplicates(queueItem[q].targetLangs)

(* The results of every task of the documents API name a language once.    *)
ResultsUniquePerLang ==
    \A t \in TaskIds :
        NoDuplicates([j \in 1..Len(task[t].results) |-> task[t].results[j].langCode])

(* C24: the target languages of a job never hold a language code twice:    *)
(* the selected list after any additions, removals and loads, the          *)
(* targetLangs of every queue item, and the results of a server task (at   *)
(* most one entry per language code).                                      *)
C24_NoDuplicateLanguages == ClientListsUnique /\ ResultsUniquePerLang

(* What holds of the browser: the selection repeats a code only while the  *)
(* stored item is a list that repeats one (loadSelectedLanguages takes the *)
(* stored list as it is); additions and removals never create a repeat.    *)
SelectionRepeatsOnlyStoredRepeats ==
    (pageSetUp /\ ~NoDuplicates(selectedTargetLanguages))
        => (savedLanguages.k = "json" /\ ~NoDuplicates(savedLanguages.langs))

(***************************************************************************)
(* The cut points of the chunker.                                          *)
(***************************************************************************)
(* The windows of a call, in order: where each starts and where it was     *)
(* cut.                                                                    *)
RECURSIVE Windows(_, _, _)
Windows(text, chunkSize, currentIndex) ==
    IF currentIndex < Len(text)
    THEN LET endIndex == EndIndex(text, chunkSize, currentIndex) IN
         <<[start |-> currentIndex, cut |-> endIndex]>>
             \o Windows(text, chunkSize, NextIndex(endIndex))
    ELSE <<>>

(* The windows of the call under study; a text that fits the limit is      *)
(* returned whole and has none.                                            *)
CallWindows ==
    IF Len(splitArgs.text) <= splitArgs.chunkSize THEN <<>>
    ELSE Windows(splitArgs.text, splitArgs.chunkSize, 0)

(* A window is final when it reaches the end of the text.                  *)
NonFinal(w) == w.start + splitArgs.chunkSize < Len(splitArgs.text)

(* The chunks are the trimmed pieces between the cuts, empty ones dropped. *)
ChunksAreWindows ==
    splitResult.chunks =
        IF Len(splitArgs.text) <= splitArgs.chunkSize THEN <<splitArgs.text>>
        ELSE SelectSeq([i \in 1..Len(CallWindows) |->
                           Trim(Substring(splitArgs.text, CallWindows[i].start, CallWindows[i].cut))],
                       NonEmpty)

(* The rank of a separator: paragraph break, sentence end, '!' or '?'      *)
(* before a space or newline, newline, space.                              *)
SeparatorRank(sep) ==
    IF sep = <<"\n", "\n">> THEN 1
    ELSE IF Len(sep) = 2 /\ sep[1] = "." THEN 2
    ELSE IF Len(sep) = 2 THEN 3
    ELSE IF sep = <<"\n">> THEN 4
    ELSE 5

(* The zone of a window: from 50 characters before the window end (not     *)
(* before the window start) to 50 characters after it (not after the end   *)
(* of the text).  The places where a separator lies inside the zone.       *)
ZoneStart(w) ==
    IF splitArgs.chunkSize <= SearchMargin THEN w.start
    ELSE w.start + splitArgs.chunkSize - SearchMargin
ZoneEnd(w) == Min(w.start + splitArgs.chunkSize + SearchMargin, Len(splitArgs.text))
PlacesInZone(w, sep) ==
    {k \in ZoneStart(w)..(ZoneEnd(w) - Len(sep)) : StartsAt(splitArgs.text, sep, k)}
PresentInZone(w) == {k \in 1..Len(Separators) : PlacesInZone(w, Separators[k]) # {}}

(* C25: a non-final window is cut right after the last place, in the zone  *)
(* around the window end, of a separator of the best rank present there,   *)
(* wherever separators of lower rank lie; when the zone holds no separator *)
(* the cut is at the window end.                                           *)
C25_SeparatorPriority ==
    SplitDone =>
        /\ ChunksAreWindows
        /\ \A i \in 1..Len(CallWindows) :
              LET w == CallWindows[i] IN
              NonFinal(w) =>
                  IF PresentInZone(w) = {} THEN w.cut = w.start + splitArgs.chunkSize
                  ELSE \E k \in PresentInZone(w) :
                          /\ \A j \in PresentInZone(w) :
                                SeparatorRank(Separators[k]) <= SeparatorRank(Separators[j])
                          /\ w.cut - Len(Separators[k]) \in PlacesInZone(w, Separators[k])
                          /\ \A p \in PlacesInZone(w, Separators[k]) :
                                p <= w.cut - Len(Separators[k])

(* "A. A " with limit 4: the cut is after ". ", at 3, although the space   *)
(* at 4 lies at the window end.                                           *)
C25_Witness ==
    /\ SplitDone
    /\ splitArgs = [text |-> <<"A", ".", " ", "A", " ">>, chunkSize |-> 4]
    /\ CallWindows[1].cut = 3
    /\ splitResult.chunks = << <<"A", ".">>, <<"A">> >>


(* Every cut of a non-final window lies after the window start and within  *)
(* SearchMargin characters of the window end.                              *)
CutsNearWindowEnd ==
    \A i \in 1..Len(CallWindows) :
        LET w == CallWindows[i]
            windowEnd == w.start + splitArgs.chunkSize IN
        NonFinal(w) =>
            /\ w.cut > w.start
            /\ w.cut >= windowEnd - SearchMargin
            /\ w.cut <= windowEnd + SearchMargin

(* C26, as stated: every cut of a non-final window lies after the window   *)
(* start and within 50 characters of the window end, so every chunk has    *)
(* between 1 and limit + 50 characters.                                    *)
C26_CutNearWindowEnd ==
    SplitDone =>
        /\ CutsNearWindowEnd
        /\ \A i \in ChunkIndexes :
              /\ Len(splitResult.chunks[i]) >= 1
              /\ Len(splitResult.chunks[i]) <= splitArgs.chunkSize + SearchMargin

(* C26, amended: every cut of a non-final window lies after the window     *)
(* start and within 50 characters of the window end, so every chunk of a   *)
(* text longer than the limit has between 1 and limit + 50 characters; a   *)
(* text that fits the limit is returned whole as the one chunk, which has  *)
(* no character when the text is empty.                                    *)
C26_CutAndChunkBounds ==
    SplitDone =>
        /\ CutsNearWindowEnd
        /\ Len(splitArgs.text) > splitArgs.chunkSize =>
              \A i \in ChunkIndexes :
                  /\ Len(splitResult.chunks[i]) >= 1
                  /\ Len(splitResult.chunks[i]) <= splitArgs.chunkSize + SearchMargin
        /\ Len(splitArgs.text) <= splitArgs.chunkSize =>
              splitResult.chunks = <<splitArgs.text>>

(* A cut 50 characters after the window end, in a text of three chunks.    *)
C26_Witness ==
    /\ SplitDone
    /\ Len(splitResult.chunks) >= 3
    /\ \E i \in 1..Len(CallWindows) :
          /\ NonFinal(CallWindows[i])
          /\ CallWindows[i].cut = CallWindows[i].start + splitArgs.chunkSize + SearchMargin

(***************************************************************************)
(* The backoff delays.                                                     *)
(***************************************************************************)
(* C27: the delay d slept after attempt a satisfies                        *)
(* min(base * 2^(a-1), maxDelay) <= d <= min(1.3 * base * 2^(a-1),         *)
(* maxDelay) with base 1000 and maxDelay 16000; the successive delays of a *)
(* run never exceed maxDelay, and each delay below maxDelay is followed by *)
(* a greater one.                                                          *)
C27_BackoffBounds ==
    /\ \A a \in 1..Len(sleepLog) :
          /\ Min(1000 * Pow2(a - 1), 16000) <= sleepLog[a]
          /\ 10 * sleepLog[a] <= Min(13 * 1000 * Pow2(a - 1), 10 * 16000)
          /\ sleepLog[a] <= 16000
    /\ \A a \in 1..(Len(sleepLog) - 1) :
          sleepLog[a] < 16000 => sleepLog[a] < sleepLog[a + 1]

(* A run that slept six times: the fourth delay carries nearly the whole   *)
(* jitter, the fifth and sixth are the maximum.                            *)
C27_Witness ==
    /\ Len(sleepLog) = 6
    /\ sleepLog[1] = 1000
    /\ sleepLog[4] = 10376
    /\ sleepLog[5] = 16000
    /\ sleepLog[6] = 16000

(***************************************************************************)
(* The progress of a text translation.                                     *)
(***************************************************************************)

(* The run of a multi-chunk translation of the second script, the one with *)
(* the progress bar, goes on in this step.                                 *)
RunGoesOn ==
    /\ run[2].pc \in {"window", "individual"}
    /\ run'[2].thisTranslationId = run[2].thisTranslationId

(* C28: during one multi-chunk translation the progress values (the        *)
(* initial one and the one after each window or individually re-processed  *)
(* chunk) never decrease, and the last one is 100, for every number of     *)
(* chunks and every pattern of failures.                                   *)
C28_ProgressMonotone ==
    /\ [][RunGoesOn => progressBar' >= progressBar]_vars
    /\ [](run[2].pc = "done" => progressBar = 100)

(* The second half of C28 alone: a run that ends has reported 100.         *)
ProgressEndsAt100 == run[2].pc = "done" => progressBar = 100

(* A progress value that the floating-point product puts below the half:   *)
(* 69 chunks of 120 are 57.5 per cent, reported as 57.                     *)
ProductBelowHalf ==
    /\ run[2].pc \in {"window", "individual"}
    /\ run[2].totalChunks = 120
    /\ run[2].completedChunks = 69
    /\ progressBar = 57

(***************************************************************************)
(* Stale runs.                                                             *)
(***************************************************************************)
(* The run of script p is under way and a later request has been let       *)
(* through since it started: it is no longer the run of the current        *)
(* request of the page.                                                    *)
Superseded(p) ==
    /\ RunActive(p)
    /\ \E k \in DOMAIN requests : requests[k].id # 0 /\ requests[k].ev > EventOf(p)

(* The run of script p writes the output field in this step.               *)
WritesOutput(p) ==
    /\ outputText' # outputText \/ outputBy' # outputBy
    /\ outputBy' = [script |-> p, id |-> run[p].thisTranslationId]

(* C29: a translation run that is no longer the run of the current request *)
(* never writes to the shared output state: it does not set the output     *)
(* text and does not reset the translating flag.                           *)
C29_StaleRunWritesNothing ==
    [][\A p \in Scripts :
          Superseded(p) => ~WritesOutput(p) /\ isTranslating'[p] = isTranslating[p]]_vars

(* The generation token of a run under way always is the generation of its *)
(* script: within a script no call is let through while one runs, so the   *)
(* checks of the token never find a stale run.                             *)
TokenAlwaysCurrent ==
    \A p \in Scripts :
        /\ RunActive(p) => run[p].thisTranslationId = currentTranslationId[p] /\ isTranslating[p]
        /\ run[p].pc # "abandoned"

(***************************************************************************)
(* The order of the languages of a task.                                   *)
(***************************************************************************)
(* The call of the client, or the making of the document, for the          *)
(* language at proc[t].i is under way.                                     *)
LanguageUnderWay(t) == proc[t].pc \in {"translate", "materialize", "materializeFallback"}

(* C30: a task handles its target languages one after another in the order *)
(* of targetLangs.  While language number i is under way the results are   *)
(* exactly those of the languages 1..i-1, in that order; the loop moves    *)
(* from language i only to language i+1, and only in the step that records *)
(* the result of language i at place i of task.results; the translation of *)
(* language i+1 then starts, unless the head of its iteration throws and   *)
(* the task ends in error.                                                 *)
C30_LanguagesInOrder ==
    /\ [](\A t \in TaskIds :
            /\ LanguageUnderWay(t) =>
                  /\ proc[t].i \in 1..Len(task[t].targetLangs)
                  /\ Len(task[t].results) = proc[t].i - 1
            /\ \A k \in 1..Len(task[t].results) :
                  task[t].results[k].langCode = task[t].targetLangs[k])
    /\ [][\A t \in TaskIds :
            LanguageUnderWay(t) /\ proc'[t].i # proc[t].i =>
                /\ proc'[t].i = proc[t].i + 1
                /\ proc'[t].pc = IF task'[t].status = "error" THEN "done" ELSE "translate"
                /\ Len(task'[t].results) = proc[t].i
                /\ task'[t].results[proc[t].i].langCode = task[t].targetLangs[proc[t].i]
                /\ SubSeq(task'[t].results, 1, proc[t].i - 1) = task[t].results]_vars

(* The last of three different languages is under way, the results of the  *)
(* first two are recorded in the order of targetLangs.                     *)
C30_Witness ==
    \E t \in TaskIds :
        /\ Len(task[t].targetLangs) = 3
        /\ task[t].targetLangs[1] # task[t].targetLangs[2]
        /\ proc[t].pc = "translate" /\ proc[t].i = 3
        /\ Len(task[t].results) = 2
        /\ task[t].results[1].langCode = task[t].targetLangs[1]
        /\ task[t].results[2].langCode = task[t].targetLangs[2]

(***************************************************************************)
(* The pieces of a multi-chunk translation (SpecWindow).                   *)
(***************************************************************************)

(* The places of the list of translated pieces of script p that hold a     *)
(* placeholder.                                                            *)
Placeholders(p) ==
    {k \in 1..Len(run[p].translatedChunks) : run[p].translatedChunks[k].k = "mark"}

(* The call that script p made for chunk c alone, after its window         *)
(* rejected, used up its attempts: every one of them was made and none     *)
(* returned a translation.                                                 *)
IndividualCallExhausted(p, c) ==
    /\ chunkLog[p][c].retryCalls = ChunkRetries
    /\ chunkLog[p][c].retrySleeps = ChunkRetries - 1

(* C31: a multi-chunk translation that finishes, in either script, has     *)
(* exactly one piece per chunk, the piece at place c being that of chunk   *)
(* c, also when windows rejected and their chunks were translated again    *)
(* one by one; a placeholder stands only at the place of a chunk whose     *)
(* call, made alone, used up its attempts, every other piece is a          *)
(* translation, and each placeholder is added in one step, together with   *)
(* one count of totalErrors, after which the run goes on to the chunks     *)
(* that remain.                                                            *)
C31_OnePiecePerChunk ==
    /\ [](\A p \in Scripts :
            run[p].pc = "done" /\ run[p].totalChunks >= 2 =>
                /\ Len(run[p].translatedChunks) = run[p].totalChunks
                /\ \A c \in 1..run[p].totalChunks :
                      /\ run[p].translatedChunks[c].of = c
                      /\ run[p].translatedChunks[c] # ErrorText(c) =>
                            run[p].translatedChunks[c].k = "api"
                      /\ run[p].translatedChunks[c] = ErrorText(c) =>
                            IndividualCallExhausted(p, c)
                /\ Cardinality(Placeholders(p)) <= run[p].totalErrors)
    /\ [][\A p \in Scripts :
            ( /\ run[p].pc = "individual"
              /\ run'[p].pc # "idle"
              /\ run'[p].translatedChunks # run[p].translatedChunks ) =>
                LET c == run[p].retry.of
                    before == run[p].translatedChunks
                    after == run'[p].translatedChunks IN
                /\ c = Len(before) + 1
                /\ Len(after) = c
                /\ SubSeq(after, 1, c - 1) = before
                /\ (after[c] = ErrorText(c)) = (run'[p].totalErrors = run[p].totalErrors + 1)
                /\ (after[c] # ErrorText(c)) = (run'[p].totalErrors = run[p].totalErrors)
                /\ c < run[p].totalChunks => run'[p].pc \in {"individual", "window"}]_vars

(* Finished runs of MaxWindowChunks chunks of both scripts, started by the *)
(* same request: in the run of the second script the first window          *)
(* rejected, chunk 2 was given up and left a placeholder at place 2, and   *)
(* all the other chunks, before and after it, are translated.              *)
C31_Witness ==
    /\ run[2].pc = "done" /\ run[1].pc = "done"
    /\ SameRequest
    /\ run[2].totalChunks = MaxWindowChunks
    /\ Len(run[2].translatedChunks) = MaxWindowChunks
    /\ Len(run[1].translatedChunks) = MaxWindowChunks
    /\ Placeholders(2) = {2}
    /\ chunkLog[2][1].retryCalls >= 1 /\ chunkLog[2][3].retryCalls >= 1
    /\ \A c \in 1..MaxWindowChunks : c # 2 => run[2].translatedChunks[c].k = "api"

(***************************************************************************)
(* The isTranslating flag.                                                 *)
(***************************************************************************)
(* The scripts whose run is past the guard.                                *)
ActiveRuns == {p \in Scripts : RunActive(p)}

(* The calls of translateText that were let through the guard.             *)
Accepted == {k \in 1..Len(requests) : requests[k].id # 0}

(* C32: at most one text translation run is past the isTranslating guard   *)
(* at a time, and the flag is set exactly while a run is active (every way *)
(* a run ends releases it).                                                *)
C32_FlagFollowsRun ==
    /\ Cardinality(ActiveRuns) <= 1
    /\ \A p \in Scripts : isTranslating[p] = RunActive(p)

(* What holds of each script by itself: its flag is set exactly while its  *)
(* run is active, a call is let through only when its run is not active,   *)
(* every way its run ends (its result, a failure) releases its flag, and a *)
(* call made when its run is not active is never refused.                  *)
FlagFollowsOwnRun ==
    /\ [](\A p \in Scripts : isTranslating[p] = RunActive(p))
    /\ [](\A p \in Scripts :
            Cardinality({k \in Accepted : requests[k].script = p}) = currentTranslationId[p])
    /\ [](\A k \in 1..Len(requests) : (requests[k].id = 0) = requests[k].busy)
    /\ [][\A p \in Scripts :
            currentTranslationId'[p] # currentTranslationId[p] =>
                /\ ~RunActive(p) /\ ~isTranslating[p]
                /\ currentTranslationId'[p] = currentTranslationId[p] + 1
                /\ run'[p].thisTranslationId = currentTranslationId'[p]]_vars
    /\ [][\A p \in Scripts :
            RunActive(p) /\ ~RunActive(p)' =>
                ~isTranslating'[p] /\ run'[p].pc \in {"done", "failed"}]_vars

(* One key press of an authenticated user has put a run of each script     *)
(* past its guard.                                                         *)
TwoRunsActive == ActiveRuns = Scripts /\ SameRequest

(***************************************************************************)
(* Auto-translation (SpecAuto).                                            *)
(***************************************************************************)
(* A translation is under way.                                             *)
Translating == ActiveRuns # {}

(* The revision of the input that the latest run was started for.          *)
RunRevision ==
    IF Accepted = {} THEN 0
    ELSE requests[CHOOSE k \in Accepted : \A j \in Accepted : j <= k].text.rev

(* The revision of the input that the run which wrote the output last was  *)
(* started for.                                                            *)
WriterRevision ==
    LET own == {k \in Accepted : /\ requests[k].script = outputBy.script
                                 /\ requests[k].id = outputBy.id}
    IN IF own = {} THEN 0 - 1 ELSE requests[CHOOSE k \in own : TRUE].text.rev

(* The input has changed since the running translation was started.        *)
ChangedInFlight == Translating /\ RunRevision # inputText.rev

(* No run is under way and the output is the translation of the text the   *)
(* input field holds (nothing, when it holds nothing).                     *)
OutputOfInput ==
    /\ ~Translating
    /\ IF inputText.kind = "empty" THEN outputText = <<>>
       ELSE /\ outputText # <<>>
            /\ WriterRevision = inputText.rev

(* C33: with auto-translate on, when the input text has changed while a    *)
(* translation is in flight, the output eventually shows the translation   *)
(* of the text the input field holds (the edits are finitely many, every   *)
(* timer fires and every call of the client is answered).                  *)
C33_FinalTextTranslated == []autoTranslate => (ChangedInFlight ~> OutputOfInput)

(* A timer that fires while the run of its script is not active does start *)
(* a translation of the text then in the input field (the second script:   *)
(* for an authenticated user).                                             *)
AutoStartsWhenIdle ==
    [][\A p \in Scripts :
          ( /\ translateTimeout[p] /\ ~translateTimeout'[p]
            /\ ~RunActive(p) /\ inputText.kind # "empty" /\ PassesGate(p) ) =>
              /\ RunActive(p)'
              /\ Last(requests').script = p
              /\ Last(requests').text.rev = inputText.rev]_vars

(***************************************************************************)
(* Termination of splitTextIntoChunks (SpecScan).                          *)
(***************************************************************************)
(* What is left of the text to scan: the measure of the loop.              *)
LeftToScan == Len(splitArgs.text) - splitResult.currentIndex

(* C34: splitTextIntoChunks terminates for every text and every chunk size *)
(* of at least 1: the scan position strictly increases in every iteration  *)
(* of the loop, whichever separator is found, so what is left to scan      *)
(* strictly decreases; the loop goes on only while something is left, it   *)
(* has made at most as many iterations as characters were scanned, and a   *)
(* call inside the loop can always take its next step.                     *)
C34_SplitTerminates ==
    /\ [][splitResult.k = "loop" /\ splitResult'.k = "loop" =>
            /\ LeftToScan > 0
            /\ LeftToScan' < LeftToScan
            /\ splitResult'.currentIndex > splitResult.currentIndex
            /\ splitResult'.iterations = splitResult.iterations + 1]_vars
    /\ [](splitArgs.chunkSize >= 1)
    /\ [](splitResult.k = "loop" =>
            /\ splitResult.iterations <= splitResult.currentIndex
            /\ splitResult.iterations <= Len(splitArgs.text)
            /\ splitResult.currentIndex < Len(splitArgs.text) + splitArgs.chunkSize + SearchMargin)
    /\ [][splitResult.k = "loop" /\ splitResult'.k = "chunks" => LeftToScan <= 0]_vars

(* A call that has returned after three iterations or more, one of which   *)
(* ended at a separator and not at the end of its window.                  *)
C34_Witness ==
    /\ splitResult.k = "chunks"
    /\ splitResult.iterations >= 3
    /\ splitResult.currentIndex >= Len(splitArgs.text)
    /\ splitResult.currentIndex # splitArgs.chunkSize * splitResult.iterations
    /\ \E k \in 1..Len(splitArgs.text) : splitArgs.text[k] = "."

(* The loop taken step by step returns what splitTextIntoChunks returns.   *)
ScanAgrees ==
    splitResult.k = "chunks" =>
        splitResult.chunks = splitTextIntoChunks(splitArgs.text, splitArgs.chunkSize)

(***************************************************************************)
(* The document queue and the completed list (SpecQueue).                  *)
(***************************************************************************)
(* The step moves item id to the completed list.                           *)
Completes(id) == completedDocuments' = Append(completedDocuments, id)

(* The queue without item id.                                              *)
Without(queue, id) == SelectSeq(queue, LAMBDA x : x # id)

(* C35: when the processing of a queue item completes, that item and no    *)
(* other is removed from the document queue, and the other items stay in   *)
(* the queue as they are, whatever clear, add-file, pause and start events *)
(* came in between.                                                        *)
C35_OnlyCompletedItemRemoved ==
    [][\A id \in DOMAIN queueItem :
          Completes(id) =>
              /\ documentQueue' = Without(documentQueue, id)
              /\ queueItem' = queueItem]_vars

(* An item that is still in the queue when it completes is the one that is *)
(* removed.                                                                *)
QueuedItemRemoved ==
    [][\A id \in DOMAIN queueItem :
          Completes(id) /\ IndexOf(documentQueue, id) # 0 =>
              /\ documentQueue' = Without(documentQueue, id)
              /\ queueItem' = queueItem]_vars

(* No item is both in the document queue and in the completed list.        *)
QueueAndCompletedDisjoint ==
    \A k \in 1..Len(documentQueue) : IndexOf(completedDocuments, documentQueue[k]) = 0

(* A file added while no target language was selected has been processed:  *)
(* the API accepts the empty list and completes the task at once.          *)
NoLanguageItemCompleted ==
    \E q \in DOMAIN queueItem :
        /\ queueItem[q].targetLangs = <<>>
        /\ queueItem[q].status = "completed"
        /\ IndexOf(completedDocuments, q) # 0

(* C36: after any sequence of add-file, start, pause, clear and completion *)
(* events, no queue item is in both the document queue and the completed   *)
(* list, and no item is in the completed list more than once.              *)
C36_CompletedOnce == QueueAndCompletedDisjoint /\ NoDuplicates(completedDocuments)

(***************************************************************************)
(* The wait of trackDocumentProgress (SpecTrack).                          *)
(***************************************************************************)
(* Run r awaits trackDocumentProgress for its current item.                *)
Tracking(r) == r \in DOMAIN batchRun /\ batchRun[r].pc = "track"

(* The server task of the item run r is waiting for has ended.             *)
TaskEnded(r) ==
    /\ Tracking(r)
    /\ remoteTask[queueItem[CurrentItem(batchRun[r])].taskId].status \in {"completed", "error"}

(* C37: once the server task has reached completed or error, the wait for  *)
(* it settles, also when status polls fail or find no task: the queue run  *)
(* is never left waiting forever.                                          *)
C37_WaitSettles == \A r \in 1..MaxBatchRuns : TaskEnded(r) ~> ~Tracking(r)

(* The wait settles only for an item that is completed or error, and the   *)
(* item goes to the completed list exactly when it is completed.           *)
WaitSettlesOnTerminal ==
    [][\A r \in DOMAIN batchRun :
          batchRun[r].pc = "track" /\ batchRun'[r].pc # "track" =>
              LET id == CurrentItem(batchRun[r]) IN
              /\ queueItem[id].status \in {"completed", "error"}
              /\ (queueItem[id].status = "completed") = Completes(id)
              /\ batchRun'[r].pc = "sleep"]_vars


(***************************************************************************)
(* SpecAuth: the Telegram Bot Authentication API. The sessions Map in      *)
(* insertion order, the requests start / check / webhook, and the approval *)
(* requests handed to sendAdminApprovalRequest. Every handler changes the  *)
(* Map before its first await; the handler of a code message goes on after *)
(* its await of sendTelegramMessage, in a step of its own.                 *)
(***************************************************************************)
MaxSessions == 2
SessionIds == 1..MaxSessions
UnknownSessionId == MaxSessions + 1
SESSION_TIMEOUT == 24 * 60 * 60 * 1000

(* Telegram users (message.from.id); session.userInfo is null before a     *)
(* user has confirmed the code.                                            *)
TelegramUsers == {101, 202}
NoUserInfo == 0

(* Texts are sequences of characters.                                      *)
CodeABC123 == <<"A", "B", "C", "1", "2", "3">>
CodeZZZ999 == <<"Z", "Z", "Z", "9", "9", "9">>
AuthCodes == {CodeABC123, CodeZZZ999}
StartCommand == <<"/", "s", "t", "a", "r", "t">>
MessageTexts ==
    { StartCommand,
      <<" ", "a", "b", "c", "1", "2", "3", " ">>,
      CodeZZZ999,
      <<"h", "i">> }

LowerCaseLetters == <<"a", "b", "c", "h", "i", "r", "s", "t", "z">>
UpperCaseLetters == <<"A", "B", "C", "H", "I", "R", "S", "T", "Z">>

(* String.prototype.toUpperCase                                            *)
toUpperCase(text) ==
    [i \in DOMAIN text |->
        IF \E k \in DOMAIN LowerCaseLetters : LowerCaseLetters[k] = text[i]
        THEN UpperCaseLetters[CHOOSE k \in DOMAIN LowerCaseLetters : LowerCaseLetters[k] = text[i]]
        ELSE text[i]]

(* String.prototype.trim                                                   *)
RECURSIVE trim(_)
trim(text) ==
    IF text = <<>> THEN <<>>
    ELSE IF Head(text) = " " THEN trim(Tail(text))
    ELSE IF text[Len(text)] = " " THEN trim(SubSeq(text, 1, Len(text) - 1))
    ELSE text

(* The first of a set of positions in the Map's iteration order, 0 if the  *)
(* set is empty.                                                           *)
FirstEntry(positions) ==
    IF positions = {} THEN 0
    ELSE CHOOSE i \in positions : \A j \in positions : i <= j

(* findSessionByAuthCode: the first session with the code that is pending. *)
findSessionByAuthCode(entries, authCode) ==
    FirstEntry({i \in DOMAIN entries :
                   entries[i].authCode = authCode /\ entries[i].status = "pending"})

(* [...sessions.entries()].find(([, s]) => s.authCode === authCode)        *)
findEntryByAuthCode(entries, authCode) ==
    FirstEntry({i \in DOMAIN entries : entries[i].authCode = authCode})

(* sessions.get(sessionId): the position of the entry, 0 for undefined.    *)
sessionsGet(entries, sessionId) ==
    FirstEntry({i \in DOMAIN entries : entries[i].sessionId = sessionId})

cleanupExpiredSessions(entries, time) ==
    LET Kept(s) == ~(time - s.createdAt > SESSION_TIMEOUT)
    IN  SelectSeq(entries, Kept)

AuthInit ==
    /\ RetryIdle
    /\ DocIdle
    /\ TextIdle
    /\ QueueIdle
    /\ SplitIdle
    /\ LangIdle
    /\ AutoIdle
    /\ isAuthenticated = FALSE

(* POST ?action=start. generateSessionId and generateAuthCode are random:  *)
(* the id is one that the Map does not hold, the code is any code.         *)
handleAuthStart(sessionId, authCode) ==
    /\ Len(sessions) < MaxSessions
    /\ sessionsGet(sessions, sessionId) = 0
    /\ sessions' = cleanupExpiredSessions(
                       Append(sessions, [sessionId |-> sessionId, authCode |-> authCode,
                                         status |-> "pending", createdAt |-> now,
                                         userInfo |-> NoUserInfo]),
                       now)
    /\ UNCHANGED <<webhookCalls, approvalRequests, retryVars, docVars, textVars, queueVars,
                   splitVars, langVars, backoffVars, autoVars>>

(* GET ?action=check: an expired session is deleted, nothing else changes. *)
handleAuthCheck(sessionId) ==
    LET i == sessionsGet(sessions, sessionId) IN
    /\ sessions' = IF i # 0 /\ now - sessions[i].createdAt > SESSION_TIMEOUT
                   THEN SelectSeq(sessions, LAMBDA s : s.sessionId # sessionId)
                   ELSE sessions
    /\ UNCHANGED <<webhookCalls, approvalRequests, retryVars, docVars, textVars, queueVars,
                   splitVars, langVars, backoffVars, autoVars>>

(* POST ?action=webhook with update.message, up to the first await:        *)
(* '/start' is answered with a greeting, any other text is taken as an     *)
(* auth code. The session and the session id are looked up separately;     *)
(* the session is updated, and the handler awaits sendTelegramMessage      *)
(* holding the session id, the session and its userInfo.                   *)
handleTelegramWebhook(text, user) ==
    LET authCode == toUpperCase(trim(text))
        session == findSessionByAuthCode(sessions, authCode)
        entry == findEntryByAuthCode(sessions, authCode)
    IN
    /\ IF text # StartCommand /\ session # 0
       THEN /\ sessions' = [sessions EXCEPT ![session].userInfo = user,
                                            ![session].status = "pending_approval"]
            /\ webhookCalls' = Append(webhookCalls,
                                      [sessionId |-> sessions[entry].sessionId,
                                       session |-> sessions[session].sessionId,
                                       user |-> user])
       ELSE UNCHANGED <<sessions, webhookCalls>>
    /\ UNCHANGED <<approvalRequests, retryVars, docVars, textVars, queueVars, splitVars,
                   langVars, backoffVars, autoVars>>

(* The await of sendTelegramMessage(chatId, ...) of a webhook handler      *)
(* settles (it never rejects): sendAdminApprovalRequest(sessionId, session) *)
(* is called, with the session id in the callback data of its buttons and  *)
(* the session's userInfo in its text.                                     *)
WebhookContinues(w) ==
    /\ w \in DOMAIN webhookCalls
    /\ approvalRequests' = Append(approvalRequests, webhookCalls[w])
    /\ webhookCalls' = [i \in 1..(Len(webhookCalls) - 1) |->
                           IF i < w THEN webhookCalls[i] ELSE webhookCalls[i + 1]]
    /\ UNCHANGED <<sessions, retryVars, docVars, textVars, queueVars, splitVars,
                   langVars, backoffVars, autoVars>>

(* handleApproval: the status after the call. With userInfo null the       *)
(* status is assigned before user.firstName throws; handleCallbackQuery    *)
(* catches the error.                                                      *)
handleApproval(entries, sessionId, approved) ==
    LET i == sessionsGet(entries, sessionId) IN
    IF i = 0 THEN entries
    ELSE [entries EXCEPT ![i].status = IF approved THEN "approved" ELSE "rejected"]

(* POST ?action=webhook with update.callback_query; data is approve_<id>   *)
(* or reject_<id>.                                                         *)
handleCallbackQuery(approved, sessionId) ==
    /\ sessions' = handleApproval(sessions, sessionId, approved)
    /\ UNCHANGED <<webhookCalls, approvalRequests, retryVars, docVars, textVars, queueVars,
                   splitVars, langVars, backoffVars, autoVars>>

AuthNext ==
    \/ \E sessionId \in SessionIds : \E authCode \in AuthCodes : handleAuthStart(sessionId, authCode)
    \/ \E sessionId \in SessionIds : handleAuthCheck(sessionId)
    \/ \E text \in MessageTexts : \E user \in TelegramUsers : handleTelegramWebhook(text, user)
    \/ \E w \in 1..MaxSessions : WebhookContinues(w)
    \/ \E approved \in BOOLEAN : \E sessionId \in SessionIds \cup {UnknownSessionId} :
          handleCallbackQuery(approved, sessionId)
    \/ Tick

SpecAuth == AuthInit /\ [][AuthNext]_vars


(***************************************************************************)
(* Claims on the authentication sessions.                                  *)
(***************************************************************************)
TerminalStatuses == {"approved", "rejected"}

(* The session with this id, before and after a step, where it exists.     *)
SessionOf(entries, sessionId) == entries[sessionsGet(entries, sessionId)]
Held(entries, sessionId) == sessionsGet(entries, sessionId) # 0

LifecycleMove(old, new) ==
    \/ new.status = old.status
    \/ old.status = "pending" /\ new.status = "pending_approval"
    \/ /\ old.status = "pending_approval"
       /\ new.status \in TerminalStatuses
       /\ old.userInfo # NoUserInfo

(* C38: the status of a session only moves pending -> pending_approval ->  *)
(* approved or rejected: it becomes approved or rejected only from         *)
(* pending_approval, with userInfo set, and an approved or rejected        *)
(* session never changes its status again, whatever messages and           *)
(* callbacks arrive.                                                       *)
C38_StatusLifecycle ==
    [][\A id \in SessionIds :
          Held(sessions, id) /\ Held(sessions', id)
              => LifecycleMove(SessionOf(sessions, id), SessionOf(sessions', id))]_vars

(* What holds of the code: a session reaches pending_approval only from    *)
(* pending, in the step that sets its userInfo, and userInfo is never      *)
(* taken back or replaced.                                                 *)
ConfirmedOnlyFromPending ==
    [][\A id \in SessionIds :
          Held(sessions, id) /\ Held(sessions', id) =>
              LET old == SessionOf(sessions, id)
                  new == SessionOf(sessions', id)
              IN  /\ new.status = "pending_approval" /\ old.status # "pending_approval"
                         => old.status = "pending" /\ new.userInfo \in TelegramUsers
                  /\ old.userInfo # NoUserInfo => new.userInfo = old.userInfo
                  /\ new.authCode = old.authCode]_vars

(* C39: when a user sends a valid auth code, the approval request sent to  *)
(* the admin carries the id of the very session that was moved to          *)
(* pending_approval and given the user's userInfo, also when several       *)
(* sessions hold the same auth code.                                       *)
C39_RequestNamesConfirmedSession ==
    \A i \in DOMAIN approvalRequests :
        approvalRequests[i].sessionId = approvalRequests[i].session

(* What holds of the code: every confirmation starts exactly one handler   *)
(* that will send one request, with the confirming user and the id of a    *)
(* session that holds the same auth code as the confirmed one; nothing     *)
(* else sends a request.                                                   *)
RequestNamesSessionWithCode ==
    /\ [][\A id \in SessionIds :
            /\ Held(sessions, id) /\ Held(sessions', id)
            /\ SessionOf(sessions, id).status = "pending"
            /\ SessionOf(sessions', id).status = "pending_approval"
            => /\ Len(webhookCalls') = Len(webhookCalls) + 1
               /\ LET call == webhookCalls'[Len(webhookCalls')] IN
                    /\ call.user = SessionOf(sessions', id).userInfo
                    /\ call.session = id
                    /\ Held(sessions, call.sessionId)
                    /\ SessionOf(sessions, call.sessionId).authCode
                           = SessionOf(sessions, id).authCode]_vars
    /\ [][approvalRequests' # approvalRequests
            => \E w \in DOMAIN webhookCalls :
                  approvalRequests' = Append(approvalRequests, webhookCalls[w])]_vars

(* A state the one-step view of the handler does not have: a session is    *)
(* approved while the request for it has not been sent yet.                *)
ApprovedBeforeRequest ==
    \E w \in DOMAIN webhookCalls :
        /\ Held(sessions, webhookCalls[w].session)
        /\ SessionOf(sessions, webhookCalls[w].session).status = "approved"

====
